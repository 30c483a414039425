----------------------------- MODULE Reassembly -----------------------------
(***************************************************************************)
(* The reassembly of fragmented IPv6 packets read from the TUN device      *)
(* (Ipv6FragmentReassembler).  Fragments come in any order, repeated, late *)
(* or never, and need not fit together; assemblies are bounded in number,  *)
(* bytes, fragments and age.                                               *)
(*                                                                         *)
(* A fragment is [key, header, start, end, more]: the addresses, the       *)
(* identification and the next header are its key; what precedes the       *)
(* fragment header, apart from the payload length, is its header           *)
(* [id, len].  Lengths and offsets are counted in units.                   *)
(***************************************************************************)
EXTENDS Naturals, Sequences, FiniteSets, SequencesExt, Maps

CONSTANTS
  Fragments,            (* the fragments the device may read                *)
  MaxAssemblies,        (* IPV6_FRAGMENT_MAX_ENTRIES                        *)
  MaxFragments,         (* IPV6_FRAGMENT_MAX_FRAGMENTS                      *)
  MaxPacket,            (* IPV6_FRAGMENT_MAX_PACKET                         *)
  MaxBuffered,          (* IPV6_FRAGMENT_MAX_TOTAL_BYTES                    *)
  FragmentTimeout,      (* IPV6_FRAGMENT_TIMEOUT                            *)
  MaxClock              (* a bound on the time that passes                  *)

VARIABLES
  clock,                (* Instant::now()                                   *)
  assemblies,           (* Ipv6FragmentKey -> Ipv6FragmentAssembly          *)
  buffered,             (* buffered_bytes                                   *)
  delivered             (* the assembly the last push returned, if any      *)

reassemblyVars == <<clock, assemblies, buffered, delivered>>

NotKnown == MaxPacket + 1

Size(f) == f.end - f.start
Minus(a, b) == IF a >= b THEN a - b ELSE 0
MemoryOf(a) == a.header.len + a.received
SumOver(S, Value(_)) == FoldSet(LAMBDA x, sum : Value(x) + sum, 0, S)

NewAssembly(f) ==
  [header |-> f.header, pieces |-> <<>>, received |-> 0, total |-> NotKnown,
   expires |-> clock + FragmentTimeout]

(* A plausible bug: what the header takes stays accounted.                 *)
RemovePayload(book, keys) ==
  [held |-> Drop(book.held, keys),
   bytes |-> Minus(book.bytes, SumOver(keys, LAMBDA k : book.held[k].received))]

(* The assemblies without some of them, and the bytes they release.        *)
RemoveAssemblies(book, keys) ==
  [held |-> Drop(book.held, keys),
   bytes |-> Minus(book.bytes, SumOver(keys, LAMBDA k : MemoryOf(book.held[k])))]

Unexpired(book) ==
  RemoveAssemblies(book, {k \in DOMAIN book.held : book.held[k].expires <= clock})

(* A plausible bug: the fragments are taken in the order they came.        *)
CoveredInOrder(a) ==
  FoldLeft(LAMBDA covered, f : IF f.start = covered THEN f.end ELSE NotKnown, 0, a.pieces)

(* How far the fragments reach without a gap, in the order of their starts. *)
Covered(a) ==
  LET Sooner(f, g) == f.start < g.start \/ (f.start = g.start /\ f.end < g.end)
  IN FoldLeft(LAMBDA covered, f : IF f.start = covered THEN f.end ELSE NotKnown, 0,
              SortSeq(a.pieces, Sooner))

(* A plausible bug: enough bytes are taken for all bytes.                  *)
CompleteByCount(a) == a.total # NotKnown /\ a.received = a.total

Complete(a) == a.total # NotKnown /\ Covered(a) = a.total

(* A fragment that does not fit the assembly.                              *)
Overlaps(a, f) == \E i \in DOMAIN a.pieces : f.start < a.pieces[i].end /\ f.end > a.pieces[i].start
Contradicts(a, f) ==
  \/ a.header # f.header
  \/ Len(a.pieces) >= MaxFragments
  \/ a.received + Size(f) > MaxPacket
  \/ Overlaps(a, f)
  \/ a.total # NotKnown /\ (f.end > a.total \/ (~f.more /\ f.end # a.total))

(* A plausible bug: each fragment renews the time the assembly has.        *)
AddRenewing(a, f) ==
  [a EXCEPT !.pieces = Append(@, f @@ [at |-> clock]), !.received = @ + Size(f),
            !.total = IF f.more THEN @ ELSE f.end, !.expires = clock + FragmentTimeout]

(* The arrival of a piece is recorded for the properties.                  *)
Add(a, f) ==
  [a EXCEPT !.pieces = Append(@, f @@ [at |-> clock]), !.received = @ + Size(f),
            !.total = IF f.more THEN @ ELSE f.end]

(* What is held after a fragment.                                          *)
Accept(book, f) ==
  LET isNew == f.key \notin DOMAIN book.held
      opened == IF isNew THEN [held |-> Put(book.held, f.key, NewAssembly(f)),
                               bytes |-> book.bytes + f.header.len]
                ELSE book
      grown == Add(opened.held[f.key], f)
  IN IF f.header.len + f.end > MaxPacket THEN book
     ELSE IF isNew /\ (\/ Cardinality(DOMAIN book.held) >= MaxAssemblies
                       \/ book.bytes + f.header.len + Size(f) > MaxBuffered) THEN book
     ELSE IF opened.bytes + Size(f) > MaxBuffered \/ Contradicts(opened.held[f.key], f)
     THEN RemoveAssemblies(opened, {f.key})
     ELSE [held |-> Put(opened.held, f.key, grown), bytes |-> opened.bytes + Size(f)]

Hold(book) == assemblies' = book.held /\ buffered' = book.bytes

(* push_borrowed.                                                          *)
Push(f) ==
  LET book == Accept(Unexpired([held |-> assemblies, bytes |-> buffered]), f)
      whole == {k \in DOMAIN book.held \cap {f.key} : Complete(book.held[k])}
  IN /\ Hold(RemoveAssemblies(book, whole))
     /\ delivered' = {book.held[k] : k \in whole}
     /\ UNCHANGED clock

(* The runtime expires assemblies between packets too.                     *)
ExpireFragments ==
  /\ Hold(Unexpired([held |-> assemblies, bytes |-> buffered]))
  /\ delivered' = {}
  /\ UNCHANGED clock

TimePasses ==
  /\ clock < MaxClock
  /\ clock' = clock + 1
  /\ delivered' = {}
  /\ UNCHANGED <<assemblies, buffered>>

ReassemblyInit == clock = 0 /\ assemblies = EmptyMap /\ buffered = 0 /\ delivered = {}

ReassemblyNext == (\E f \in Fragments : Push(f)) \/ ExpireFragments \/ TimePasses

ReassemblySpec == ReassemblyInit /\ [][ReassemblyNext]_reassemblyVars

---------------------------------------------------------------------------
(* A packet that is handed on has each of its bytes from exactly one       *)
(* fragment, all of one header, and ends where the last fragment does:     *)
(* whatever arrives, in whatever order, no packet has a gap or two         *)
(* readings (push_borrowed: "overlap handling is deliberately              *)
(* fail-closed").                                                          *)
DeliveredIsWhole ==
  \A a \in delivered :
    /\ \A byte \in 0 .. a.total - 1 :
         Cardinality({i \in DOMAIN a.pieces :
                        a.pieces[i].start <= byte /\ byte < a.pieces[i].end}) = 1
    /\ \A i \in DOMAIN a.pieces : a.pieces[i].end <= a.total /\ a.pieces[i].header = a.header
    /\ \E i \in DOMAIN a.pieces : ~a.pieces[i].more /\ a.pieces[i].end = a.total

(* A packet all the fragments of which are there is handed on with the     *)
(* last of them, whichever that is: none waits complete until it expires   *)
(* (complete).                                                             *)
CompleteIsDelivered ==
  \A k \in DOMAIN assemblies :
    LET a == assemblies[k]
        bytes == UNION {f.start .. f.end - 1 : f \in ToSet(a.pieces)}
    IN a.total # NotKnown => bytes # 0 .. a.total - 1

(* The account of buffered bytes is what the assemblies take, through      *)
(* every way an assembly can end, and stays within its limit, so that the  *)
(* limit neither leaks away nor lets more in (remove_assembly, expire).    *)
BufferAccounted ==
  /\ buffered = SumOver(DOMAIN assemblies, LAMBDA k :
                  assemblies[k].header.len + SumOver(DOMAIN assemblies[k].pieces,
                                                     LAMBDA i : Size(assemblies[k].pieces[i])))
  /\ buffered <= MaxBuffered
  /\ Cardinality(DOMAIN assemblies) <= MaxAssemblies

(* No packet is put together from fragments further apart than the         *)
(* timeout, when the sender may be using their identification again.       *)
DeliveredWithinTimeout ==
  \A a \in delivered : \A i, j \in DOMAIN a.pieces :
    a.pieces[j].at < a.pieces[i].at + FragmentTimeout

(* What is handed on is a packet, what is one is handed on, and nothing is *)
(* kept of the rest.                                                       *)
ReassemblyExact ==
  DeliveredIsWhole /\ CompleteIsDelivered /\ BufferAccounted /\ DeliveredWithinTimeout
=============================================================================
