--------------------------- MODULE MCGatewayOrder ---------------------------
(***************************************************************************)
(* Gateway with the order in which reserve() let the requests in, to       *)
(* compare it with the order in which they get the backend.                *)
(***************************************************************************)
EXTENDS Gateway, SequencesExt

VARIABLE accepted   \* the requests reserve() let in, first to last

OrderInit == Init /\ accepted = <<>>

\* Unlike Gateway, this module relies on how asyncio picks tasks: it runs new
\* tasks in the order they were created, so answers start in that order too.
FirstStepsInOrder ==
    \A i, j \in DOMAIN accepted :
        i < j /\ answer[accepted[i]] = "new" /\ answer[accepted[j]] = "new" =>
            answer'[accepted[j]] = "new"

OrderNext ==
    /\ Next
    /\ FirstStepsInOrder
    /\ accepted' = accepted \o
           SetToSeq({r \in Requests : place[r] = "none" /\ place'[r] = "waiting"})

OrderSpec == OrderInit /\ [][OrderNext]_<<vars, accepted>>

\* "Requests wait here in arrival order" (queue.py:4): the slot goes to a
\* request only when none that was let in before it still waits.  The code lines
\* requests up when their worker reaches slot(), not when reserve() lets them
\* in, and the producer of a streaming request starts a step later than a
\* non-streaming answer, which may pass it there.
ArrivalOrder ==
    [][\A i, j \in DOMAIN accepted :
          i < j /\ Starts(accepted[j]) => place[accepted[i]] # "waiting"]_<<vars, accepted>>

=============================================================================
