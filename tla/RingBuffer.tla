------------------------------- MODULE RingBuffer -------------------------------
(***************************************************************************)
(* The ring buffer of the perf event (pfwrapper.c): the kernel appends the *)
(* records of the DAMON tracepoint at data_head while the perf thread      *)
(* takes them at data_tail, one mmap_buffer_read or mmap_buffer_skip at a  *)
(* time.                                                                   *)
(*                                                                         *)
(* The kernel is external: it publishes whole records, drops one that does *)
(* not fit, and never writes over what data_tail has not passed.  The two  *)
(* positions are 64-bit numbers that mmap_buffer_skip and                  *)
(* mmap_buffer_reset put through a 32-bit int; IntMod stands for 2^32 and  *)
(* WordMod for 2^64.                                                       *)
(***************************************************************************)
EXTENDS Integers, Sequences, Functions

CONSTANTS
  RingSize,   \* s_ringsize, a power of two (s_mapmask + 1)
  HeaderLen,  \* sizeof (struct perf_event_header)
  Fields,     \* lengths of the fields before the data, data_size the last one
  DataLens,   \* data_size of the samples the kernel writes
  OtherLens,  \* lengths of records that are not samples
  MinData,    \* the 40 bytes profiling_sample_read asks for
  BufCap,     \* records s_profiling_recbuf has room for
  IntMod, WordMod,
  MaxHead     \* bound on data_head

\* The lengths of the fields from the k-th on together, and of a whole sample
FieldsFrom[k \in 1..(Len(Fields) + 1)] ==
  IF k > Len(Fields) THEN 0 ELSE Fields[k] + FieldsFrom[k + 1]
SampleLen(d) == HeaderLen + FieldsFrom[1] + d

ASSUME RingConstants ==
  /\ RingSize \in Nat \ {0} /\ IntMod \in Nat \ {0} /\ WordMod \in Nat
  /\ IntMod % (2 * RingSize) = 0 /\ WordMod % IntMod = 0
  /\ MaxHead \in Nat /\ MaxHead < WordMod
  /\ HeaderLen \in Nat \ {0} /\ Fields \in Seq(Nat \ {0}) /\ Fields # << >>
  /\ DataLens \subseteq Nat \ {0} /\ OtherLens \subseteq Nat

\* os_perf_init sizes the record buffer by the ring and the length of a record.
ASSUME BufferConstants ==
  BufCap \in Nat /\ \A d \in DataLens : RingSize <= BufCap * SampleLen(d)

\* The data of the DAMON tracepoint hold every field profiling_sample_read takes.
ASSUME TracepointConstants == \A d \in DataLens : MinData <= d

VARIABLES
  head,   \* data_head
  tail,   \* data_tail
  ring,   \* the contents of the ring
  pc,     \* where pf_profiling_record is
  at,     \* the record whose header it read last
  size,   \* `size': what is left of the record
  field,  \* the field to read next
  data_size,
  ret,    \* what profiling_sample_read returns
  nrec,   \* records stored in rec_arr
  added   \* records published since pf_profiling_record was called

kernelVars == <<head, ring>>
readVars == <<pc, at, size, field, data_size, ret>>
vars == <<kernelVars, tail, readVars, nrec, added>>

\* A unit of the ring: the record it belongs to, its place in it, what a header
\* or a data_size read there says.
Types == {"SAMPLE", "OTHER"}
Cell(a, off, type, len, dlen) ==
  [at |-> a, off |-> off, type |-> type, len |-> len, dlen |-> dlen]
Blank == Cell(-1, 0, "OTHER", 0, 0)

U64(x) == x % WordMod
I32(x) == ((x + IntMod \div 2) % IntMod) - IntMod \div 2

\* The position the reader is at, which data_tail is modulo 2^32.
Pos == head - I32(head - tail)

TypeOK ==
  /\ head \in 0..MaxHead /\ tail \in 0..(WordMod - 1)
  /\ DOMAIN ring = 0..(RingSize - 1)
  /\ pc \in {"idle", "header", "field", "data", "skip"}
  /\ size \in 0..RingSize /\ (size > 0 <=> pc \in {"field", "data", "skip"})
  /\ field \in 1..Len(Fields)
  /\ data_size \in DataLens \cup {0} /\ ret \in {"none", "ok", "fail"}
  /\ nrec \in Nat /\ added \in Nat /\ at \in -1..MaxHead

Init ==
  /\ head = 0 /\ tail = 0 /\ ring = [i \in 0..(RingSize - 1) |-> Blank]
  /\ pc = "idle" /\ size = 0 /\ field = 1 /\ data_size = 0 /\ ret = "none"
  /\ nrec = 0 /\ added = 0 /\ at = -1

-----------------------------------------------------------------------------
(* The kernel *)

\* CIRC_SPACE: one unit stays free
Space == (tail - head - 1) % RingSize

\* What data_tail has passed is blanked out, for the properties to notice if it
\* were read again.
Publish(type, len, dlen) ==
  /\ len <= Space /\ head + len <= MaxHead
  /\ ring' = [i \in DOMAIN ring |->
                LET off == (i - head) % RingSize
                IN CASE off < len -> Cell(head, off, type, len, dlen)
                     [] (i - tail) % RingSize < (head - tail) % RingSize -> ring[i]
                     [] OTHER -> Blank]
  /\ head' = head + len
  /\ added' = IF pc = "idle" THEN added ELSE added + 1
  /\ UNCHANGED <<tail, readVars, nrec>>

Kernel ==
  \/ \E d \in DataLens : Publish("SAMPLE", SampleLen(d), d)
  \/ \E n \in OtherLens : Publish("OTHER", n, 0)

-----------------------------------------------------------------------------
(* mmap_buffer_read and mmap_buffer_skip *)

Available(n) == I32(head - tail) >= n

\* (faulty) the copy goes on behind the ring
CopiedStraight(n) ==
  LET from == tail % RingSize
  IN [i \in 0..(n - 1) |-> IF from + i < RingSize THEN ring[from + i] ELSE Blank]
\* the two copies of a record that wraps
Copied(n) ==
  LET from == tail % RingSize
      ncopies == RingSize - from
  IN [i \in 0..(n - 1) |-> IF i < ncopies THEN ring[from + i] ELSE ring[i - ncopies]]

Origin(n) == {c.at : c \in Range(Copied(n))}

Read(n) == tail' = U64(tail + n)

\* (faulty) as mmap_buffer_reset does
SkippedToHead(n) == U64(I32(head))
Skipped(n) ==
  IF I32(tail + n) > I32(head) THEN U64(tail + I32(I32(head) - tail)) ELSE U64(tail + n)

-----------------------------------------------------------------------------
(* pf_profiling_record and profiling_sample_read *)

\* (faulty) the buffer goes on where the last read ended
CallKept == UNCHANGED <<nrec, added>>
Call == nrec' = 0 /\ added' = 0

Start ==
  /\ pc = "idle" /\ pc' = "header"
  /\ Call
  /\ UNCHANGED <<kernelVars, tail, at, size, field, data_size, ret>>

\* profiling_recbuf_update stores the record of a user process
Store == nrec' \in {nrec, nrec + 1}

\* pf_profiling_record goes on after a record, or returns after a failure.
Return(r) ==
  /\ at' = -1 /\ size' = 0 /\ field' = 1 /\ data_size' = 0 /\ ret' = "none"
  /\ pc' = IF r = "fail" THEN "idle" ELSE "header"
  /\ IF r = "ok" THEN Store ELSE UNCHANGED nrec
  /\ UNCHANGED <<kernelVars, added>>

\* (faulty) a field is taken off twice
LeftTwice(n) == size - 2 * n
\* `size -= ...'
Left(n) == size - n

\* The header: an empty ring or a record of no length ends the call.
ReadHeader ==
  /\ pc = "header"
  /\ LET ehdr == Copied(HeaderLen)[0]
     IN IF Available(HeaderLen) /\ ehdr.len > HeaderLen
        THEN /\ Read(HeaderLen)
             /\ at' = ehdr.at /\ size' = ehdr.len - HeaderLen
             /\ pc' = IF ehdr.type = "SAMPLE" THEN "field" ELSE "skip"
             /\ UNCHANGED <<kernelVars, field, data_size, ret, nrec, added>>
        ELSE /\ tail' = IF Available(HeaderLen) THEN U64(I32(head)) ELSE tail
             /\ Return("fail")

\* ip, pid and tid, time, cpu, period, data_size
ReadField ==
  /\ pc = "field"
  /\ LET n == Fields[field]
     IN IF Available(n)
        THEN /\ Read(n) /\ size' = Left(n)
             /\ IF field = Len(Fields)
                THEN pc' = "data" /\ data_size' = Copied(n)[0].dlen /\ UNCHANGED field
                ELSE field' = field + 1 /\ UNCHANGED <<pc, data_size>>
             /\ UNCHANGED ret
        ELSE pc' = "skip" /\ ret' = "fail" /\ UNCHANGED <<tail, size, field, data_size>>
  /\ UNCHANGED <<kernelVars, at, nrec, added>>

\* the data, into memory that malloc may not give
ReadData ==
  /\ pc = "data"
  /\ \E got \in BOOLEAN :
       LET copied == got /\ Available(data_size)
           ok == copied /\ data_size >= MinData
           left == IF ok THEN Left(data_size) ELSE size
           r == IF ok THEN "ok" ELSE "fail"
       IN /\ IF copied THEN Read(data_size) ELSE UNCHANGED tail
          /\ IF left > 0
             THEN /\ pc' = "skip" /\ size' = left /\ ret' = r
                  /\ UNCHANGED <<kernelVars, at, field, data_size, nrec, added>>
             ELSE Return(r)

\* mmap_buffer_skip of a record that is no sample, or of what is left of a sample
Skip == pc = "skip" /\ tail' = Skipped(size) /\ Return(ret)

Reader == Start \/ ReadHeader \/ ReadField \/ ReadData \/ Skip

Next == Kernel \/ Reader

Spec == Init /\ [][Next]_vars

-----------------------------------------------------------------------------
\* Whenever the reader is about to take a header it stands at the first unit of a
\* record, or at the head: no read, skip, wrap of the ring or wrap of the 32-bit
\* arithmetic leaves it inside a record (mmap_buffer_read, mmap_buffer_skip).
Framed ==
  pc \in {"idle", "header"} =>
    LET c == ring[Pos % RingSize]
    IN Pos = head \/ (Pos < head /\ c.at = Pos /\ c.off = 0)

\* What the reader asks for after a header is there, because the record was
\* published to its last byte, and all of it belongs to the record of that header:
\* none is torn, by the wrap of the ring or by the kernel (mmap_buffer_read).
Untorn ==
  /\ pc = "field" => Available(Fields[field]) /\ Origin(Fields[field]) = {at}
  /\ pc = "data" => Origin(data_size) = {at}
  /\ pc = "skip" => Available(size)

\* The records are read whole: from header to header and none torn, by the wrap of the
\* ring, the wrap of the arithmetic or the kernel (mmap_buffer_read, mmap_buffer_skip).
Whole == Framed /\ Untorn

\* A read stores no more records than the buffer holds, but for those that were
\* published while it went on (profiling_recbuf_update).
FitsButForNew == nrec <= BufCap + added

\* The reader only moves on, and a skip passes over its own record only, except
\* when data_head is past 2^31 (or an odd multiple of it) and the end of the record
\* is not: then every record of the ring is dropped (mmap_buffer_skip keeps
\* data_head in an int).
SkipsOneRecord ==
  [][/\ Pos' >= Pos
     /\ pc = "skip" /\ pc' # "skip" /\ Pos' - Pos # size =>
          I32(head) < 0 /\ I32(tail + size) >= 0 /\ Pos' = head]_vars
=============================================================================
