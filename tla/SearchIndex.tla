------------------------------ MODULE SearchIndex ------------------------------
(***************************************************************************)
(* The search indexer and the document it keeps of each trip.  The three   *)
(* topics have a consumer each, so that a trip's events come in any order, *)
(* and an event comes again when the indexer restarts before it commits.   *)
(* The indexer starts no consumers for the retry topics: an event it fails *)
(* on is not indexed any more.                                             *)
(***************************************************************************)

CONSTANTS
  Trip,
  Rider,
  None   \* no rider

VARIABLES
  docs,   \* the documents of the index, with status "none" where there is none
  events  \* events of trips the indexer has not committed

Event == [type : {"created", "completed", "cancelled"}, trip : Trip,
          rider : Rider \union {None}]
Document == [rider : Rider \union {None},
             status : {"none", "searching", "completed", "cancelled"}]
NoDocument == [rider |-> None, status |-> "none"]

IndexTypeOK ==
  /\ docs \in [Trip -> Document]
  /\ events \subseteq Event

IndexInit ==
  /\ docs = [t \in Trip |-> NoDocument]
  /\ events = {}

-----------------------------------------------------------------------------

\* Of what the indexer reads of the events only a creation's names the rider.
About(type, t, r) == [type |-> type, trip |-> t,
                       rider |-> IF type = "created" THEN r ELSE None]

Publish(type, t, r) == events' = events \union {About(type, t, r)}

\* PUT of the whole document: it replaces whatever was there.
IndexTrip(doc, e) == [rider |-> e.rider, status |-> "searching"]

\* POST to _update with doc_as_upsert: the fields are merged.
UpdateTrip(doc, e) == [doc EXCEPT !.status = e.type]

\* handleCreated, handleCompleted, handleCancelled.  The message is committed,
\* or comes again after a restart.
Handle(e) ==
  /\ e \in events
  /\ docs' = [docs EXCEPT ![e.trip] = IF e.type = "created" THEN IndexTrip(@, e)
                                      ELSE UpdateTrip(@, e)]
  /\ events' \in {events, events \ {e}}

\* The index does not answer; the copy in the retry topic is not consumed.
HandleFails(e) ==
  /\ e \in events
  /\ events' = events \ {e}
  /\ UNCHANGED docs
================================================================================
