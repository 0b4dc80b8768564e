------------------------- MODULE LatestValueQueueOps -------------------------
(* The data of application/LatestValueQueue.h when it sheds old values:    *)
(* what push does to the deque, shared by every module that owns a queue,  *)
(* and what the erasing of elements leaves of one.                         *)
EXTENDS Integers, Sequences

(* while (queue_.size() >= capacity_) queue_.pop_front();                  *)
Shed(q, capacity) ==
  IF Len(q) < capacity THEN q ELSE SubSeq(q, Len(q) - capacity + 2, Len(q))

(* push on an open queue that drops old values.                            *)
PushLatest(q, value, capacity) == Append(Shed(q, capacity), value)

(* PushResult::dropped.                                                    *)
Dropped(q, capacity) == Len(q) - Len(Shed(q, capacity))

(* erase(remove_if(...)): the elements at the given positions are kept, in *)
(* their order.                                                            *)
Kept(q, positions) ==
  LET part[i \in 0..Len(q)] ==
        IF i = 0 THEN <<>>
        ELSE IF i \in positions THEN Append(part[i - 1], q[i])
        ELSE part[i - 1]
  IN  part[Len(q)]
=============================================================================
