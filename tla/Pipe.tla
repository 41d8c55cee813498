-------------------------------- MODULE Pipe --------------------------------
(***************************************************************************)
(* What a CONNECT link promises its two ends, whatever happens between     *)
(* them: the remote takes the client's bytes in their order, the client    *)
(* reads the success reply first and then the remote's bytes in theirs,    *)
(* nobody reads what was not sent, and the end of the session is final.    *)
(* It may come at any time and lose what is under way; bytes of the client *)
(* may still reach the remote after it.  Connect implements this.          *)
(***************************************************************************)
EXTENDS Naturals, Sequences

CONSTANT Success   \* what the client reads first, a message

VARIABLES
  up,         \* "new", "open" or "over": the client's side
  given,      \* number of bytes the client has sent, its header aside
  taken,      \* those the remote has taken
  offered,    \* number of bytes the remote has sent
  returned    \* what the client has read

vars == <<up, given, taken, offered, returned>>

Init == up = "new" /\ given = 0 /\ taken = <<>> /\ offered = 0 /\ returned = <<>>

(* The client sends a message, which may be what ends the session.         *)
Give == /\ up # "over"
        /\ given' > given /\ up' \in {up, "over"}
        /\ UNCHANGED <<taken, offered, returned>>

Offer == offered' = offered + 1 /\ UNCHANGED <<up, given, taken, returned>>

Take == /\ Len(taken) < given
        /\ taken' = Append(taken, Len(taken) + 1)
        /\ UNCHANGED <<up, given, offered, returned>>

Establish == /\ up = "new" /\ up' = "open"
             /\ returned' = <<Success>>
             /\ UNCHANGED <<given, taken, offered>>

Return == /\ up = "open" /\ Len(returned) <= offered
          /\ returned' = Append(returned, <<Len(returned)>>)
          /\ UNCHANGED <<up, given, taken, offered>>

End == up # "over" /\ up' = "over" /\ UNCHANGED <<given, taken, offered, returned>>

Next == Give \/ Offer \/ Take \/ Establish \/ Return \/ End

Spec == Init /\ [][Next]_vars
=============================================================================
