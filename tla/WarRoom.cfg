\* The war-room page over two incidents; gives up after the third attempt.
CONSTANTS
    NoIncident = NoIncident
    Incident = {i1, i2}
    MaxReconnectAttempts = 3
    MaxRequests = 3
SPECIFICATION WarRoomSpec
INVARIANT
  OneStream
PROPERTY
  StreamComesBack
