--------------------------- MODULE FrameAllocator ---------------------------
(***************************************************************************)
(* What an allocator of page frames promises: a frame it hands out is one  *)
(* of its pool, is not in anyone else's hands, and is the lowest such; it  *)
(* answers NULL only when the whole pool is handed out; a frame returned   *)
(* may be handed out again.                                                *)
(***************************************************************************)
EXTENDS Integers

CONSTANT None  \* nothing has been answered since the last frame came back

VARIABLES
  pool,  \* addresses of the frames to be managed
  out,   \* the ones handed out
  ret,   \* answer to the last request
  asked  \* flips with every request: two equal answers are two answers

faVars == <<pool, out, ret, asked>>

NoFrame == 0

FAInit == pool = {} /\ out = {} /\ ret = None /\ asked = 0

Open == /\ pool = {} /\ out = {}
        /\ pool' # {} /\ \A f \in pool' : f # NoFrame
        /\ UNCHANGED <<out, ret, asked>>

Grant == \E f \in pool \ out :
           /\ \A g \in pool \ out : f <= g
           /\ out' = out \cup {f}
           /\ ret' = f /\ asked' = 1 - asked
           /\ UNCHANGED pool

Refuse == /\ pool \subseteq out
          /\ ret' = NoFrame /\ asked' = 1 - asked
          /\ UNCHANGED <<pool, out>>

Release == \E f \in out : /\ out' = out \ {f}
                          /\ ret' = None
                          /\ UNCHANGED <<pool, asked>>

FANext == Open \/ Grant \/ Refuse \/ Release
FASpec == FAInit /\ [][FANext]_faVars
=============================================================================
