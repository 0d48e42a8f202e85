------------------------------ MODULE Session ------------------------------
(***************************************************************************)
(* What a connection promises its client: the client's packets are handled *)
(* one at a time, each once, in the order they were sent, by a handler     *)
(* that sees the state the one before left; the responses arrive in that   *)
(* order, unit by unit.  A response may be lost as a whole, a packet that  *)
(* is not well formed is never handled, and the session may end between    *)
(* any two packets, for good.                                              *)
(*                                                                         *)
(* Nothing here says how packets and responses travel: there are no rings, *)
(* no parser, no kernel and no events.                                     *)
(***************************************************************************)
EXTENDS Integers, Sequences

CONSTANTS
  Scripts,        \* the sequences of packets a client may send
  WellFormed(_),  \* whether a packet is one that can be handled
  Handler(_, _),  \* what a state and a packet give: a state and a response
  Wire(_),        \* the units of a response
  Fresh,          \* the state of a connection nobody has used
  None            \* the response that is none

VARIABLES script, handled, proto, answers, lost, got, open

session == <<script, handled, proto, answers, lost, got, open>>

SessionInit ==
  /\ script \in Scripts
  /\ handled = << >> /\ proto = Fresh
  /\ answers = << >> /\ lost = << >> /\ got = << >>
  /\ open = TRUE

\* The next packet of the client, its effect and its response together.
Handle ==
  /\ open /\ Len(handled) < Len(script)
  /\ LET pkt == script[Len(handled) + 1]
         r == Handler(proto, pkt)
     IN  /\ WellFormed(pkt)
         /\ handled' = Append(handled, pkt)
         /\ proto' = r.conn
         /\ \/ r.response = None /\ UNCHANGED <<answers, lost>>
            \/ /\ r.response # None
               /\ answers' = answers \o Wire(r.response) /\ UNCHANGED lost
            \/ /\ r.response # None
               /\ lost' = Append(lost, r.response) /\ UNCHANGED answers
  /\ UNCHANGED <<script, got, open>>

Deliver ==
  /\ Len(got) < Len(answers)
  /\ got' = Append(got, answers[Len(got) + 1])
  /\ UNCHANGED <<script, handled, proto, answers, lost, open>>

End ==
  /\ open /\ open' = FALSE
  /\ proto' = Fresh
  /\ UNCHANGED <<script, handled, answers, lost, got>>

SessionNext == Handle \/ Deliver \/ End

SessionSpec == SessionInit /\ [][SessionNext]_session
=============================================================================
