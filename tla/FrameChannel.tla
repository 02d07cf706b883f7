---------------------------- MODULE FrameChannel ----------------------------
(***************************************************************************)
(* What a websocket promises to the program behind it: every frame that    *)
(* the browser sends reaches the data callback whole, in order and once,   *)
(* and nothing follows the close frame.  Frames at the end may be lost.    *)
(***************************************************************************)
EXTENDS Naturals, Sequences

CONSTANT Frames

VARIABLES frames,   \* the frames sent so far
          handed    \* the frames the callback has seen

Init == frames = <<>> /\ handed = <<>>

Closed(s) == \E i \in 1..Len(s) : s[i].op = "close"

Send ==
    /\ ~Closed(frames)
    /\ \E f \in Frames : frames' = Append(frames, f)
    /\ UNCHANGED handed

Deliver ==
    /\ Len(handed) < Len(frames) /\ ~Closed(handed)
    /\ handed' = Append(handed, frames[Len(handed) + 1])
    /\ UNCHANGED frames

Next == Send \/ Deliver

Spec == Init /\ [][Next]_<<frames, handed>>
=============================================================================
