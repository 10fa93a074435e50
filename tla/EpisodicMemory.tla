--------------------------- MODULE EpisodicMemory ----------------------------
(***************************************************************************)
(* The managers of past incidents (src/memory/episodic.py) over their      *)
(* in-memory vector stores (src/memory/vector_store.py): the lazy seeding  *)
(* with curated postmortems, the search with its context budget, and the   *)
(* indexing of reports.  Every embedding is awaited, and searches, seeding *)
(* and indexing interleave there; a store's own operations do not suspend. *)
(*                                                                         *)
(* The program builds two managers: the incident service indexes its       *)
(* reports into one, the registered search tool asks another.              *)
(***************************************************************************)
EXTENDS Integers, Sequences, FiniteSets, Functions, FiniteSetsExt

CONSTANTS
  Searcher,    (* calls of search_similar_incidents                        *)
  Poster,      (* calls of auto_index_to_memory                            *)
  Seeds,       (* HISTORICAL_POSTMORTEMS, in order                         *)
  Report,      (* documents made of the service's own reports              *)
  ReportOf,    (* the report each Poster indexes                           *)
  ServiceOf,   (* the service a document is about                          *)
  LengthOf,    (* characters of a document's text                          *)
  Service,     (* services a search may name                               *)
  Score,       (* similarities, in any unit                                *)
  TopK, Budget (* top_k and max_char_budget                                *)

SeedDocs == {Seeds[i] : i \in DOMAIN Seeds}
Doc == SeedDocs \cup Report

ASSUME SeedsAssumption ==
  /\ Seeds \in Seq(Doc) /\ Len(Seeds) > 0
  /\ \A i, j \in DOMAIN Seeds : Seeds[i] = Seeds[j] => i = j
ASSUME OwnReports == SeedDocs \cap Report = {}
ASSUME DocumentsAssumption ==
  /\ ReportOf \in [Poster -> Report]
  /\ ServiceOf \in [Doc -> Service]
  /\ LengthOf \in [Doc -> Nat]
ASSUME LimitsAssumption == TopK \in Nat \ {0} /\ Budget \in Nat
(* Similarities can be told apart, and have an order. *)
ASSUME ScoresAssumption == Score \subseteq Int

Manager == {"service", "registry"}

VARIABLES
  documents,  (* the documents of each manager's store, in order           *)
  seeded,     (* _seeded of each manager                                   *)
  search,     (* where each search stands                                  *)
  answer,     (* what each search came back with                           *)
  indexed     (* the calls of auto_index_to_memory that are done           *)

memoryVars == <<documents, seeded, search, answer, indexed>>

(* The manager the registered search tool asks. *)
SearchedBy == "registry"

(* The manager the incident service's reports are indexed into. *)
IndexesInto == "service"

Searching ==
  [phase : {"idle", "seeding", "querying", "answered", "failed"},
   service : Service, blank : BOOLEAN, embedded : 0..Len(Seeds)]

-----------------------------------------------------------------------------
(* Searching a store.                                                      *)

(* Stable sort by score, best first: i comes before j. *)
Before(docs, score, i, j) ==
  \/ score[docs[i]] > score[docs[j]]
  \/ score[docs[i]] = score[docs[j]] /\ i < j

(* The best documents among the candidate positions, at most TopK. *)
Best(docs, candidates, score) ==
  LET size == Min({TopK, Cardinality(candidates)})
      ranked == CHOOSE r \in [1..size -> candidates] :
        /\ \A x, y \in 1..size : x < y => Before(docs, score, r[x], r[y])
        /\ \A x \in 1..size, i \in candidates \ Range(r) :
             Before(docs, score, r[x], i)
  IN [x \in 1..size |-> docs[ranked[x]]]

About(docs, s) == {i \in DOMAIN docs : ServiceOf[docs[i]] = s}

(* The search by service, and the general one if that finds nothing. *)
Results(docs, s, score) ==
  Best(docs, IF About(docs, s) # {} THEN About(docs, s) ELSE DOMAIN docs, score)

(* The characters of the first n results. *)
Characters(results, n) ==
  FoldFunctionOnSet(+, 0, [x \in DOMAIN results |-> LengthOf[results[x]]], 1..n)

Overflows(results, n) == n > 1 /\ Characters(results, n) > Budget

(* The budget ends the list with the first result, but one, that exceeds   *)
(* it.  That result's text is cut, which nobody reads: the matches and the *)
(* prompt are made of the documents' metadata, uncut.                      *)
Budgeted(results) ==
  LET over == {n \in DOMAIN results : Overflows(results, n)}
  IN  IF over = {} THEN results ELSE SubSeq(results, 1, Min(over))

-----------------------------------------------------------------------------
MemoryInit ==
  /\ documents = [m \in Manager |-> <<>>]
  /\ seeded = [m \in Manager |-> FALSE]
  /\ search \in [Searcher -> [phase : {"idle"}, service : Service, blank : BOOLEAN,
                             embedded : {0}]]
  /\ answer = [s \in Searcher |-> <<>>]
  /\ indexed = {}

(* A faulty beginning: the memory counts as seeded when seeding starts. *)
BeginAsSeeded(s) ==
  /\ search[s].phase = "idle" /\ ~search[s].blank
  /\ search' = [search EXCEPT ![s].phase =
                  IF seeded[SearchedBy] THEN "querying" ELSE "seeding"]
  /\ seeded' = [seeded EXCEPT ![SearchedBy] = TRUE]
  /\ UNCHANGED <<documents, answer, indexed>>

(* A blank query finds nothing, at once. *)
AnswerBlank(s) ==
  /\ search[s].phase = "idle" /\ search[s].blank
  /\ search' = [search EXCEPT ![s].phase = "answered"]
  /\ UNCHANGED <<documents, seeded, answer, indexed>>

(* search_similar_incidents is entered with a query: it awaits the first   *)
(* embedding, of a seed or of the query.                                   *)
BeginSearch(s) ==
  /\ search[s].phase = "idle" /\ ~search[s].blank
  /\ search' = [search EXCEPT ![s].phase =
                  IF seeded[SearchedBy] THEN "querying" ELSE "seeding"]
  /\ UNCHANGED <<documents, seeded, answer, indexed>>

(* A faulty seeding: every seed is stored as soon as it is embedded. *)
StoreEachSeed(s) ==
  /\ search[s].phase = "seeding"
  /\ LET n == search[s].embedded + 1 IN
       /\ documents' = [documents EXCEPT ![SearchedBy] = Append(@, Seeds[n])]
       /\ seeded' = [seeded EXCEPT ![SearchedBy] = @ \/ n = Len(Seeds)]
       /\ search' = [search EXCEPT ![s].embedded = n,
                       ![s].phase = IF n = Len(Seeds) THEN "querying" ELSE @]
  /\ UNCHANGED <<answer, indexed>>

(* A seed is embedded.  After the last one all of them are stored, the     *)
(* memory counts as seeded, and the query is embedded.                     *)
EmbedSeed(s) ==
  /\ search[s].phase = "seeding"
  /\ LET n == search[s].embedded + 1 IN
       /\ search' = [search EXCEPT ![s].embedded = n,
                       ![s].phase = IF n = Len(Seeds) THEN "querying" ELSE @]
       /\ \/ n < Len(Seeds) /\ UNCHANGED <<documents, seeded>>
          \/ /\ n = Len(Seeds)
             /\ documents' = [documents EXCEPT ![SearchedBy] = @ \o Seeds]
             /\ seeded' = [seeded EXCEPT ![SearchedBy] = TRUE]
  /\ UNCHANGED <<answer, indexed>>

(* An embedding, of a seed or of the query, raises: the search fails and   *)
(* the seeds embedded so far are forgotten.                                *)
SearchFails(s) ==
  /\ search[s].phase \in {"seeding", "querying"}
  /\ search' = [search EXCEPT ![s].phase = "failed"]
  /\ UNCHANGED <<documents, seeded, answer, indexed>>

(* The query is embedded and the store searched. *)
AnswerQuery(s) ==
  /\ search[s].phase = "querying"
  /\ search' = [search EXCEPT ![s].phase = "answered"]
  /\ \E score \in [Doc -> Score] :
       answer' = [answer EXCEPT ![s] =
         Budgeted(Results(documents[SearchedBy], search[s].service, score))]
  /\ UNCHANGED <<documents, seeded, indexed>>

(* auto_index_to_memory: the report's text is embedded, then stored.  When *)
(* the embedding raises nothing is, as if the call had not been made.      *)
IndexPostmortem(p) ==
  /\ p \notin indexed
  /\ indexed' = indexed \cup {p}
  /\ documents' = [documents EXCEPT ![IndexesInto] = Append(@, ReportOf[p])]
  /\ UNCHANGED <<seeded, search, answer>>

MemoryNext ==
  \/ \E s \in Searcher :
       AnswerBlank(s) \/ BeginSearch(s) \/ EmbedSeed(s) \/ SearchFails(s) \/ AnswerQuery(s)
  \/ \E p \in Poster : IndexPostmortem(p)

MemorySpec == MemoryInit /\ [][MemoryNext]_memoryVars

-----------------------------------------------------------------------------
(* Type invariant. *)
MemoryTypeOK ==
  /\ documents \in [Manager -> Seq(Doc)]
  /\ seeded \in [Manager -> BOOLEAN]
  /\ search \in [Searcher -> Searching]
  /\ answer \in [Searcher -> Seq(Doc)]
  /\ indexed \subseteq Poster

Copies(m, d) == Cardinality({i \in DOMAIN documents[m] : documents[m][i] = d})

(* Seeding is all or nothing: whatever searches race to seed a memory, and *)
(* whichever embedding fails, no seed is stored without the others, a      *)
(* memory that counts as seeded holds them all, and one that does not      *)
(* holds none.                                                             *)
SeedingIsAtomic ==
  \A m \in Manager, c, d \in SeedDocs :
    /\ Copies(m, c) = Copies(m, d)
    /\ seeded[m] <=> Copies(m, c) > 0

(* A search with a query found something, whoever else was seeding at the  *)
(* time and whichever embedding failed; and if a curated postmortem is     *)
(* about the service it asked for, nothing of another service was mixed    *)
(* in.                                                                     *)
SearchFindsItsService ==
  \A s \in Searcher :
    search[s].phase = "answered" /\ ~search[s].blank =>
      /\ answer[s] # <<>>
      /\ (\E d \in SeedDocs : ServiceOf[d] = search[s].service) =>
           \A n \in DOMAIN answer[s] : ServiceOf[answer[s][n]] = search[s].service

(* What the architecture document says of the service's own reports: they  *)
(* are stored for future retrieval.  A search for a service finds          *)
(* something about that service when a report about it has been indexed.   *)
ReportsAreRecalled ==
  [][\A s \in Searcher, p \in indexed :
       /\ search[s].phase = "querying" /\ search'[s].phase = "answered"
       /\ ServiceOf[ReportOf[p]] = search[s].service
       => \E n \in DOMAIN answer'[s] : ServiceOf[answer'[s][n]] = search[s].service
    ]_memoryVars
=============================================================================
