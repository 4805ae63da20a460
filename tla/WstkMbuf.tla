------------------------------- MODULE WstkMbuf -------------------------------
(***************************************************************************)
(* wstk_mbuf_t (wstk-mbuf.c, wstk-mbuf.h): a buffer that grows, with a      *)
(* position and an end.  memory is the block buf points to; Unset is a byte *)
(* nobody wrote.  BufferMax bounds what callers ask for, DEFAULT_SIZE is    *)
(* that of the code scaled down.                                            *)
(***************************************************************************)
EXTENDS Integers, FiniteSets, SequencesExt

CONSTANTS Bytes, Unset, BufferMax, DEFAULT_SIZE

ASSUME MbufAssumption ==
  Unset \notin Bytes /\ BufferMax \in Nat /\ DEFAULT_SIZE \in 1..BufferMax

VARIABLES
  memory,          \* the block: a sequence of bytes; <<>> when buf is NULL
  bsize, pos, end, \* wstk_mbuf_t; positions count from 0
  failed           \* a reallocation failed

buffer == <<memory, bsize, pos, end>>
mbufVars == <<buffer, failed>>

AtMost(a, b) == IF a <= b THEN a ELSE b
AtLeast(a, b) == IF a >= b THEN a ELSE b

wstk_mbuf_left == IF end > pos THEN end - pos ELSE 0

Unwritten(n) == [i \in 1..n |-> Unset]
Moved(mem, n) == [i \in 1..n |-> IF i <= Len(mem) THEN mem[i] ELSE Unset]
Put(mem, at, bytes) ==
  [i \in 1..Len(mem) |-> IF i > at /\ i <= at + Len(bytes) THEN bytes[i - at] ELSE mem[i]]
Window == SubSeq(memory, pos + 1, AtMost(end, Len(memory)))

(* wstk_mbuf_alloc *)
MbufInit ==
  /\ memory = Unwritten(DEFAULT_SIZE) /\ bsize = DEFAULT_SIZE /\ pos = 0 /\ end = 0
  /\ failed = FALSE

GrownByHalf(n) == IF bsize = 0 THEN DEFAULT_SIZE ELSE 2 * bsize

Grown(n) == AtLeast(n, IF bsize = 0 THEN DEFAULT_SIZE ELSE 2 * bsize)

(* wstk_mbuf_resize: size is set whether or not there was memory; a caller  *)
(* whose call failed gives the buffer up.                                   *)
ResizeFails(n) ==
  /\ bsize' = n /\ failed' = TRUE
  /\ UNCHANGED <<memory, pos, end>>

MayResize(n) == n >= end /\ n > 0

wstk_mbuf_resize(n) ==
  /\ MayResize(n)
  /\ \/ /\ memory' = Moved(memory, n) /\ bsize' = n
        /\ UNCHANGED <<pos, end, failed>>
     \/ ResizeFails(n)

wstk_mbuf_trim == end > 0 /\ end # bsize /\ wstk_mbuf_resize(end)

(* wstk_mbuf_write_mem and all that end in it, and wstk_mbuf_fill *)
Write_mem(bytes) ==
  LET rsize == pos + Len(bytes)
      room == IF rsize > bsize THEN Grown(rsize) ELSE bsize
  IN
  \/ /\ memory' = Put(Moved(memory, room), pos, bytes)
     /\ bsize' = room
     /\ pos' = rsize /\ end' = AtLeast(end, rsize)
     /\ UNCHANGED failed
  \/ room # bsize /\ ResizeFails(room)

(* wstk_mbuf_read_mem and all that end in it; beyond the end it fails *)
Read_mem(n) ==
  /\ pos' = IF n > wstk_mbuf_left THEN pos ELSE pos + n
  /\ UNCHANGED <<memory, bsize, end, failed>>

(* the bytes from pos to the end move, the buffer grows if they must *)
wstk_mbuf_shift(n) ==
  LET rsize == end + n IN
  /\ pos + n >= 0 /\ rsize >= 0
  /\ \/ /\ bsize' = AtLeast(bsize, rsize)
        /\ memory' = Put(Moved(memory, bsize'), pos + n, Window)
        /\ pos' = pos + n /\ end' = rsize
        /\ UNCHANGED failed
     \/ rsize > bsize /\ ResizeFails(rsize)

(* set_pos, set_end, advance, rewind, skip_to_end, clean and set_posend, as *)
(* callers use them: within what was written.                               *)
Written(p, e) == p <= e /\ e <= bsize /\ \A i \in (p + 1)..e : memory[i] # Unset

wstk_mbuf_set_posend(p, e) ==
  /\ Written(p, e)
  /\ pos' = p /\ end' = e
  /\ UNCHANGED <<memory, bsize, failed>>

wstk_mbuf_reset ==
  /\ memory' = <<>> /\ bsize' = 0 /\ pos' = 0 /\ end' = 0 /\ failed' = FALSE

(* from another buffer with these bytes up to its end; out of range if that *)
(* is more than there is room for                                           *)
wstk_mbuf_cpy(bytes) ==
  /\ bsize >= Len(bytes)
  /\ memory' = Put(memory, 0, bytes)
  /\ pos' = Len(bytes) /\ end' = Len(bytes)
  /\ UNCHANGED <<bsize, failed>>

Inputs == UNION {[1..n -> Bytes] : n \in 0..2}

MbufUse ==
  \/ \E s \in Inputs : pos + Len(s) <= BufferMax /\ Write_mem(s)
  \/ \E n \in 0..2 : Read_mem(n)
  \/ \E n \in {-1, 1, 2} : end + n <= BufferMax /\ wstk_mbuf_shift(n)
  \/ \E p, e \in 0..BufferMax : wstk_mbuf_set_posend(p, e)
  \/ \E n \in 1..BufferMax : wstk_mbuf_resize(n)
  \/ wstk_mbuf_trim \/ \E s \in Inputs : wstk_mbuf_cpy(s)

MbufNext == (~failed /\ MbufUse) \/ wstk_mbuf_reset

-----------------------------------------------------------------------------
(* pos, end and size are in order and within the memory there is, and what  *)
(* is between pos and end was written.                                      *)
BoundsSound ==
  /\ pos <= end /\ (~failed => end <= bsize /\ bsize = Len(memory))
  /\ end <= Len(memory) /\ Unset \notin ToSet(Window)

Upto == SubSeq(memory, 1, pos)
Text == SubSeq(memory, 1, end)

TextStep ==
  /\ \A s \in Inputs :
       Write_mem(s) /\ ~failed' =>
         Text' = Upto \o s \o SubSeq(Text, pos + Len(s) + 1, end)
  /\ \A n \in {-1, 1, 2} : wstk_mbuf_shift(n) /\ ~failed' => Window' = Window
  /\ \A n \in 1..BufferMax : wstk_mbuf_resize(n) => Text' = Text
  /\ \A s \in Inputs : wstk_mbuf_cpy(s) => Text' = s

(* A buffer holds the bytes written into it: growing, trimming, moving and  *)
(* copying it in any order keep every byte up to the end, nothing is read   *)
(* or written beyond the memory there is, and no byte is handed out that    *)
(* nobody wrote (wstk-mbuf.c:163).                                          *)
BufferHoldsBytes == [][mbufVars' # mbufVars => BoundsSound' /\ TextStep]_mbufVars
=============================================================================
