----------------------------- MODULE V1Exchange -----------------------------
(***************************************************************************)
(* What a V1 base may rely on about its conversation with each remote,     *)
(* whatever the air and the radios do: the promise of send_command(),      *)
(* process_remote_commands(), process_base_responses() and                 *)
(* process_base_timeouts() in src/Pico2_V1_RF/src/main.c, with no FIFO, no *)
(* deadline, no console and no loop.                                       *)
(*   - One thing is asked of a remote at a time.                           *)
(*   - What is asked is carried out at most once, and what is taken for    *)
(*     its answer was said by the remote when it carried this out.         *)
(*   - It is given up only when nothing of it is under way.                *)
(*   - The number of a ping advances by an answered ping and nothing else. *)
(* A deadline or a restart that overtakes a packet sends the conversation  *)
(* astray: from then on it is not known what is under way, and only what   *)
(* is said of numbers below is left, until a station restarts as well.     *)
(***************************************************************************)
EXTENDS Integers

CONSTANTS
  Remotes,       \* the remotes
  MoveValues,    \* the movements that may be asked for
  SEQ_MOD        \* the numbers of pings are taken modulo this

VARIABLES
  asked,         \* what the base wants answered by each remote, if anything
  packet,        \* what of it is under way: a "command", an "answer", "none"
  number,        \* the number of the ping that is to be answered next
  told,          \* the movement that the base believes a remote has
  seen,          \* the number of the last ping that a remote has carried out
  moving,        \* the movement that it has
  astray         \* "late": something was overtaken; "restarted": a station was

exchangeVars == <<asked, packet, number, told, seen, moving, astray>>

Numbers   == 0 .. SEQ_MOD - 1
Movements == MoveValues \cup {0}
Nothing   == [kind |-> "none", arg |-> 0]
Requests  == [kind : {"ping"}, arg : Numbers] \cup [kind : {"move"}, arg : MoveValues]
               \cup [kind : {"stop", "getstat", "getver"}, arg : {0}]

Late        == "late" \in astray
Everywhere(p) == [r \in Remotes |-> p]

\* What is under way to or from r becomes p, as far as it is known.
Becomes(r, p) == packet' = IF Late THEN packet ELSE [packet EXCEPT ![r] = p]

Init ==
  /\ asked = Everywhere(Nothing) /\ packet = Everywhere("none")
  /\ number = Everywhere(0) /\ told = Everywhere(0)
  /\ seen = Everywhere(SEQ_MOD - 1) /\ moving = Everywhere(0)
  /\ astray = {}

-----------------------------------------------------------------------------
\* A ping is asked with the number that is to be answered next; what is asked
\* may be lost at once.
Ask(r, c) ==
  /\ asked[r] = Nothing
  /\ c.kind = "ping" => c.arg = number[r]
  /\ asked' = [asked EXCEPT ![r] = c]
  /\ \E p \in {"command", "none"} : Becomes(r, p)
  /\ UNCHANGED <<number, told, seen, moving, astray>>

\* The remote carries out what is asked.  One that is astray may carry out
\* something older, but until a restart no ping older than the one before.
Obey(r, c) ==
  /\ ~Late => packet[r] = "command" /\ c = asked[r]
  /\ c.kind = "ping" /\ "restarted" \notin astray => c.arg \in {seen[r], number[r]}
  /\ seen' = [seen EXCEPT ![r] = IF c.kind = "ping" THEN c.arg ELSE @]
  /\ moving' = [moving EXCEPT ![r] = CASE c.kind = "move" -> c.arg
                                       [] c.kind = "stop" -> 0
                                       [] OTHER -> @]
  /\ \E p \in {"answer", "none"} : Becomes(r, p)
  /\ UNCHANGED <<asked, number, told, astray>>

\* The base has its answer.  Unless the conversation is astray it was told the
\* movement that the remote has; it was answered a ping that the remote has
\* carried out, unless the conversation is astray and a station has restarted.
Hear(r) ==
  /\ asked[r] # Nothing
  /\ ~Late => packet[r] = "answer"
  /\ asked' = [asked EXCEPT ![r] = Nothing]
  /\ Becomes(r, "none")
  /\ \/ /\ asked[r].kind = "ping"
        /\ ~(Late /\ "restarted" \in astray) => seen[r] = number[r]
        /\ number' = [number EXCEPT ![r] = (@ + 1) % SEQ_MOD]
        /\ UNCHANGED told
     \/ /\ asked[r].kind \in {"move", "stop", "getstat"}
        /\ \E m \in Movements :
             /\ asked[r].kind # "getstat" => m = asked[r].arg
             /\ Late \/ m = moving[r]
             /\ told' = [told EXCEPT ![r] = m]
        /\ UNCHANGED number
     \/ asked[r].kind = "getver" /\ UNCHANGED <<number, told>>
  /\ UNCHANGED <<seen, moving, astray>>

Lose(r) ==
  /\ packet[r] \in {"command", "answer"}
  /\ packet' = [packet EXCEPT ![r] = "none"]
  /\ UNCHANGED <<asked, number, told, seen, moving, astray>>

\* The base gives up what some remotes have not answered.
GiveUp ==
  /\ \E Silent \in SUBSET {r \in Remotes : Late \/ packet[r] = "none"} :
       asked' = [r \in Remotes |-> IF r \in Silent THEN Nothing ELSE asked[r]]
  /\ UNCHANGED <<packet, number, told, seen, moving, astray>>

-----------------------------------------------------------------------------
\* The conversation goes astray, or stays as it is.
Overtaken == astray' = astray \cup {"late"} /\ packet' = Everywhere("unknown")

\* A deadline overtakes what it is set for.
Delay ==
  /\ \E r \in Remotes : asked[r] # Nothing
  /\ Overtaken
  /\ UNCHANGED <<asked, number, told, seen, moving>>

\* A base that starts has asked nothing and knows nothing.
RestartBase ==
  /\ asked' = Everywhere(Nothing) /\ number' = Everywhere(0) /\ told' = Everywhere(0)
  /\ \/ /\ packet = Everywhere("none")
        /\ astray' = astray \cup {"restarted"} /\ UNCHANGED packet
     \/ astray' = astray \cup {"restarted", "late"} /\ packet' = Everywhere("unknown")
  /\ UNCHANGED <<seen, moving>>

\* A remote that starts has forgotten what it was asked; an answer under way, to
\* any remote, counts as overtaken.
RestartRemote(r) ==
  /\ seen' = [seen EXCEPT ![r] = SEQ_MOD - 1] /\ moving' = [moving EXCEPT ![r] = 0]
  /\ \/ /\ ~Late /\ \A q \in Remotes : packet[q] # "answer"
        /\ astray' = astray \cup {"restarted"} /\ packet' = [packet EXCEPT ![r] = "none"]
     \/ astray' = astray \cup {"restarted", "late"} /\ packet' = Everywhere("unknown")
  /\ UNCHANGED <<asked, number, told>>

Next ==
  \/ \E r \in Remotes, c \in Requests : Ask(r, c) \/ Obey(r, c)
  \/ \E r \in Remotes : Hear(r) \/ Lose(r) \/ RestartRemote(r)
  \/ GiveUp \/ Delay \/ RestartBase

Spec == Init /\ [][Next]_exchangeVars
=============================================================================
