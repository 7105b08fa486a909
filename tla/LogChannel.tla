----------------------------- MODULE LogChannel -----------------------------
(***************************************************************************)
(* What the threaded logger promises to its callers: an entry admitted     *)
(* before the logger was closed may enter one common order, and entries    *)
(* are delivered in that order, each at most once, none invented.          *)
(* The promise says nothing of when (or whether) the last of them is       *)
(* delivered: ThreadedLogger states that separately.                       *)
(***************************************************************************)
EXTENDS Sequences, Naturals

CONSTANT Entry      \* the set of log entries

VARIABLES
  closed,           \* the logger refuses new entries
  admitted,         \* entries let in, not yet in the common order
  accepted,         \* the common order
  delivered         \* entries whose callback has returned

chanVars == <<closed, admitted, accepted, delivered>>

ChanInit ==
  /\ closed = FALSE
  /\ admitted = {}
  /\ accepted = <<>>
  /\ delivered = <<>>

(* An open logger lets an entry in. *)
Admit(e) ==
  /\ ~closed
  /\ admitted' = admitted \cup {e}
  /\ UNCHANGED <<closed, accepted, delivered>>

(* An entry that was let in takes the next place of the order. *)
Accept(e) ==
  /\ e \in admitted
  /\ admitted' = admitted \ {e}
  /\ accepted' = Append(accepted, e)
  /\ UNCHANGED <<closed, delivered>>

(* The oldest undelivered entry is delivered. *)
Deliver ==
  /\ Len(delivered) < Len(accepted)
  /\ delivered' = Append(delivered, accepted[Len(delivered) + 1])
  /\ UNCHANGED <<closed, admitted, accepted>>

Close ==
  /\ closed' = TRUE
  /\ UNCHANGED <<admitted, accepted, delivered>>

ChanNext ==
  \/ \E e \in Entry : Admit(e) \/ Accept(e)
  \/ Deliver
  \/ Close

ChanSpec == ChanInit /\ [][ChanNext]_chanVars
=============================================================================
