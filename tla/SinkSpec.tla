------------------------------- MODULE SinkSpec -------------------------------
(***************************************************************************)
(* What the validators and main.go may rely on of a result sink            *)
(* (internal/sink), whatever it delivers to.  Write puts results into a    *)
(* bounded channel and waits for room; once started, one worker takes them *)
(* out and hands them over, or loses them; a worker that ends is through   *)
(* with all it took.  What is left in the channel then stays there.        *)
(***************************************************************************)
EXTENDS Integers

CONSTANT ChanSize   \* the capacity of the channel

VARIABLES
    sent,      \* how many results were put into the channel
    taken,     \* how many of them the worker took out
    handled,   \* how many of these it is through with
    worker     \* "new", "working" or "ended"

sinkVars == <<sent, taken, handled, worker>>

Init ==
    /\ sent = 0
    /\ taken = 0
    /\ handled = 0
    /\ worker \in {"new", "working"}

Accept ==
    /\ sent - taken < ChanSize
    /\ sent' = sent + 1
    /\ UNCHANGED <<taken, handled, worker>>

Start ==
    /\ worker = "new"
    /\ worker' = "working"
    /\ UNCHANGED <<sent, taken, handled>>

Take ==
    /\ worker = "working"
    /\ taken < sent
    /\ taken' = taken + 1
    /\ UNCHANGED <<sent, handled, worker>>

\* Of several results at once, too.
Handle ==
    /\ worker = "working"
    /\ handled' \in (handled + 1)..taken
    /\ UNCHANGED <<sent, taken>>
    /\ worker' = "working" \/ (worker' = "ended" /\ handled' = taken)

End ==
    /\ worker = "working"
    /\ handled = taken
    /\ worker' = "ended"
    /\ UNCHANGED <<sent, taken, handled>>

Next == Accept \/ Start \/ Take \/ Handle \/ End

Spec == Init /\ [][Next]_sinkVars
=============================================================================
