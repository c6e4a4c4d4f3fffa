----------------------------- MODULE BufferPool -----------------------------
(***************************************************************************)
(* BufferPool on a heap: the blocks a server's read callbacks borrow for   *)
(* the time between libuv's request for memory and the callback with what  *)
(* was read.  The pool takes a block of the heap when it has none free and *)
(* gives none back before it is destroyed.  A new block is the lowest free *)
(* one, so that a block freed elsewhere is soon used again.                *)
(***************************************************************************)
EXTENDS Naturals, Sequences

CONSTANT Blocks        \* bound of the model: the number of blocks in the heap

ASSUME BlocksAssumption == Blocks \in Nat

Block == 1 .. Blocks

VARIABLES
  free_buffers_,       \* the pool's queue of free buffers
  allocated            \* the blocks of the heap in use, the pool's among them

poolVars == <<free_buffers_, allocated>>

PoolTypeOK ==
  /\ free_buffers_ \in Seq(Block)
  /\ allocated \subseteq Block

PoolInit == free_buffers_ = <<>> /\ allocated = {}

------------------------------------------------------------------------------
(* new char[size]: b is the block.                                         *)
New(b) ==
  /\ b \in Block \ allocated
  /\ 1 .. b - 1 \subseteq allocated
  /\ allocated' = allocated \cup {b}

(* delete[] of block b.                                                    *)
Delete(b) == allocated' = allocated \ {b}

AcquireBuffer(b) ==
  \/ /\ free_buffers_ # <<>>
     /\ b = Head(free_buffers_)
     /\ free_buffers_' = Tail(free_buffers_)
     /\ UNCHANGED allocated
  \/ /\ free_buffers_ = <<>>
     /\ New(b)
     /\ UNCHANGED free_buffers_

ReleaseBuffer(b) ==
  /\ free_buffers_' = Append(free_buffers_, b)
  /\ UNCHANGED allocated
=============================================================================
