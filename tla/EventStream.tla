---------------------------- MODULE EventStream ----------------------------
(***************************************************************************)
(* What the far end of an agent session may rely on: the abstract promise  *)
(* of the tunnel.  The events of one session come from several sources,    *)
(* the goroutines of its handler among them, which share one counter.  No  *)
(* number arrives twice and those of one source arrive in growing order    *)
(* (gaps are allowed); events of different sources may overtake each       *)
(* other.  Nothing follows the event that terminates the stream, which may *)
(* also end without one.                                                   *)
(*                                                                         *)
(* AgentSession implements this specification; AgentRelay, on the other    *)
(* side of the tunnel, takes it as its environment.                        *)
(***************************************************************************)
EXTENDS Naturals

CONSTANT Source  \* who numbers events of the session

VARIABLES arrived,  \* source and number of every event that arrived
          status    \* "open", "terminated" (by an event) or "ended"

streamVars == <<arrived, status>>

StreamTypeOK ==
    /\ arrived \subseteq [by : Source, seq : Nat]
    /\ status \in {"open", "terminated", "ended"}

StreamInit ==
    /\ arrived = {}
    /\ status = "open"

\* f may arrive when e has: another number, and a greater one of one source.
Before(e, f) ==
    /\ e.seq # f.seq
    /\ e.by = f.by => e.seq < f.seq

Arrive ==
    /\ status = "open"
    /\ \E f \in arrived' \ arrived :
         /\ f.by \in Source /\ f.seq \in Nat
         /\ \A e \in arrived : Before(e, f)
         /\ arrived' = arrived \cup {f}

\* An event arrives.
Deliver == Arrive /\ UNCHANGED status

\* The event arrives that terminates the stream.
DeliverTerminal == Arrive /\ status' = "terminated"

\* The sender stops; whatever has not arrived by now never will.
End ==
    /\ status # "ended"
    /\ status' = "ended"
    /\ UNCHANGED arrived

StreamNext == Deliver \/ DeliverTerminal \/ End

StreamSpec == StreamInit /\ [][StreamNext]_streamVars
=============================================================================
