---------------------------- MODULE MCEventPaging ----------------------------
(* A small instance of EventPaging for TLC.                                *)
EXTENDS EventPaging

Short == [kind |-> "event", size |-> 2]
Long  == [kind |-> "event", size |-> 4]
Huge  == [kind |-> "event", size |-> 7]
Think == [kind |-> "reasoning", size |-> 0]
Blank == [kind |-> "blank", size |-> 0]
Torn  == [kind |-> "torn", size |-> 2]
AllLines == {Short, Long, Huge, Think, Blank, Torn}

(* Rollouts that end a page in every way there is: by count, by length, by *)
(* a line no page holds at its start, middle and end, by a line that is    *)
(* still being written.                                                    *)
AllContents ==
  {<<>>, <<Torn>>, <<Huge>>, <<Blank, Think>>, <<Short, Torn>>, <<Short, Long>>,
   <<Short, Short, Short>>, <<Short, Huge, Short>>, <<Huge, Short, Huge>>,
   <<Think, Short, Blank, Short>>, <<Short, Long, Blank>>, <<Long, Short, Short, Torn>>,
   <<Huge, Huge, Short, Blank, Short>>}
BothLimits == {1, 2}
=============================================================================
