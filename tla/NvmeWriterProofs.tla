--------------------------- MODULE NvmeWriterProofs ---------------------------
(***************************************************************************)
(* The three NVMe submission paths, proved for every number of slots and   *)
(* commands, every queue depth and every CID range: the writer's books and *)
(* the Host Core agree, an abort never meets a freed engine, and the paths *)
(* implement SlotWriter.  The completion queue is empty when the writer    *)
(* starts (Leftover is {}; the README tells what a leftover can do).       *)
(***************************************************************************)
EXTENDS NvmeWriter, FiniteSetTheorems, SequenceTheorems, WellFoundedInduction, TLAPS

Cids == 1 .. CidCount - 1
Commands == [cid : Cids, slot : Slots, idx : 1 .. CmdsPerSlot]
Entries == [cid : Cids, error : BOOLEAN, cmd : Commands]
Contexts == [slot : 0 .. NSlots, next : Nat, completed : Nat, failed : Nat, inflight : Nat]

Places == {"create", "loop", "head", "poll", "retire", "refill", "bell", "abort", "drain",
           "settle", "destroy", "fail", "end", "done"}

PlaceOK == mode \in AllModes /\ pc \in Places
NumbersOK == /\ next_cmd_id \in 0 .. CidCount - 1 /\ inflight \in Nat /\ rr \in Index
             /\ taken \in 0 .. NSlots /\ ready \in 0 .. NSlots
TablesOK == /\ pending \subseteq Commands /\ IsFiniteSet(pending)
            /\ ctx \in [Index -> Contexts]
            /\ cq \in Seq(Entries)

\* Doorbell, drive and completion queue hold the pending commands, each once.
HostInv ==
    /\ pending = bell \cup dev \cup {cq[i].cmd : i \in 1 .. Len(cq)}
    /\ bell \cap dev = {}
    /\ \A i \in 1 .. Len(cq) :
         /\ cq[i].cid = cq[i].cmd.cid
         /\ cq[i].cmd \notin bell \cup dev
         /\ ~cq[i].error => <<cq[i].cmd.slot, cq[i].cmd.idx>> \in written
    /\ \A i, j \in 1 .. Len(cq) : cq[i].cmd = cq[j].cmd => i = j
    /\ \A p, q \in pending : p.cid = q.cid => p = q

\* The contexts: one per slot, a serial writer has one, and their counters add up.
ShapeInv ==
    /\ \A i, j \in Active : ctx[i].slot = ctx[j].slot => i = j
    /\ \A i \in Active :
         /\ ctx[i].slot <= taken /\ ctx[i].next <= CmdsPerSlot
         /\ ctx[i].next = ctx[i].completed + ctx[i].failed + ctx[i].inflight
    /\ ~Cross => \A i, j \in Active : i = j

CountedBy(i, p) == p.slot = ctx[i].slot /\ p.idx <= ctx[i].next
PostedBy(i, p) == p.slot = ctx[i].slot /\ p.idx = ctx[i].next + 1

\* The counters account for exactly the commands of S.
Booked(S) ==
    /\ inflight = Cardinality(S) /\ inflight <= QD
    /\ \A p \in S : \E i \in Active : CountedBy(i, p)
    /\ \A i \in Active : ctx[i].inflight = Cardinality({p \in S : p.slot = ctx[i].slot})
    /\ Cross => \A p \in S : p.cid \notin seen

\* Every pending command is accounted for, but the one whose doorbell has not
\* been answered.
BookInv ==
    /\ pc # "bell" => Booked(pending)
    /\ pc = "bell" => \E q \in pending : /\ Booked(pending \ {q}) /\ inflight < QD
                                         /\ \E i \in Active : PostedBy(i, q)

\* The commands context c has counted are in the table or on the medium.
Placed(c, table, medium) ==
    \A k \in 1 .. c.next : \/ <<c.slot, k>> \in medium
                           \/ \E p \in table : p.slot = c.slot /\ p.idx = k

\* A context without a failure has lost no command.
MediumInv ==
    /\ written \subseteq (1 .. taken) \X (1 .. CmdsPerSlot)
    /\ \A i \in Active : ctx[i].failed = 0 => Placed(ctx[i], pending, written)

RetireInv ==
    /\ retired \subseteq 1 .. taken
    /\ \A i \in Active : ctx[i].slot \in retired =>
         Cross /\ pc \in {"abort", "drain", "settle", "destroy", "done"}

\* Where the writer is, who has left, and what the drive may then still own.
EndInv ==
    /\ bell # {} => pc \in {"bell", "abort", "drain", "settle", "destroy", "fail", "done"}
    /\ pc \in {"abort", "settle", "destroy"} => Cross
    /\ pc = "fail" => ~Cross
    /\ pc \in {"destroy", "done"} /\ Cross /\ quiesced => pending = {}
    /\ pc \in {"create", "loop"} /\ ~Cross => Active = {}
    /\ pc \in {"fail", "end", "done"} /\ ~Cross => pending = {} \/ unresolved \/ Abandons
    /\ joined => pc = "done"
    /\ closed => joined /\ quiesced /\ ~unresolved

TypeOK == PlaceOK /\ NumbersOK /\ TablesOK
IInv == TypeOK /\ HostInv /\ ShapeInv /\ BookInv /\ MediumInv /\ RetireInv /\ EndInv

------------------------------------------------------------------------------
(* The operators of the model.                                             *)

LEMMA Constants ==
  /\ NSlots \in Nat \ {0} /\ CmdsPerSlot \in Nat \ {0} /\ QD \in Nat \ {0}
  /\ MaxActive \in Nat \ {0} /\ SqDepth \in Nat \ {0}
  /\ CidCount \in Nat /\ CidCount > QD + 1
  BY WriterAssumption

\* Min is what its name says on a set of naturals that is not empty.
LEMMA MinOfNaturals ==
  ASSUME NEW S \in SUBSET Nat, S # {}
  PROVE  Min(S) \in S /\ \A n \in S : Min(S) <= n
  <1> DEFINE R == {ss \in Nat \X Nat : ss[1] < ss[2]}
  <1>1. IsWellFoundedOn(R, Nat)
    BY NatLessThanWellFounded DEF OpToRel
  <1>2. \E x \in S : \A y \in S : ~(<<y, x>> \in R)
    <2> HIDE DEF R
    <2> QED BY <1>1, WFMin
  <1>3. PICK x \in S : \A y \in S : ~(<<y, x>> \in R)
    BY <1>2
  <1>4. \A y \in S : ~(y < x)
    BY <1>3
  <1>5. \A y \in S : x <= y
    BY <1>4
  <1> QED BY <1>5 DEF Min

LEMMA ModRange == \A m \in Nat \ {0} : \A x \in Int : x % m \in 0 .. m - 1
  OBVIOUS

\* Any residue is some number of steps away from any other.
LEMMA ModReaches ==
  ASSUME NEW m \in Nat \ {0}, NEW a \in 0 .. m - 1, NEW b \in 0 .. m - 1
  PROVE  \E n \in 0 .. m - 1 : (a + n) % m = b
  <1>1. CASE b >= a
    <2>1. b - a \in 0 .. m - 1 /\ a + (b - a) = b
      BY <1>1
    <2>2. b % m = b
      OBVIOUS
    <2> QED BY <2>1, <2>2
  <1>2. CASE b < a
    <2>1. b - a + m \in 0 .. m - 1 /\ a + (b - a + m) = b + m
      BY <1>2
    <2>2. (b + m) % m = b
      OBVIOUS
    <2> QED BY <2>1, <2>2
  <1> QED BY <1>1, <1>2

\* nvme_alloc_cid finds a CID while the queue depth is not reached: fewer commands
\* are pending than there are CIDs besides 0.
LEMMA FreeCid ==
  ASSUME NumbersOK, TablesOK, Cardinality(pending) < QD
  PROVE  /\ CidSkips \in 0 .. CidCount - 1
         /\ CidAfter(CidSkips) \in Cids
         /\ \A p \in pending : p.cid # CidAfter(CidSkips)
  <1>1. \E c \in Cids : \A p \in pending : p.cid # c
    <2> SUFFICES ASSUME \A c \in Cids : \E p \in pending : p.cid = c
                 PROVE  FALSE
      OBVIOUS
    <2> DEFINE f == [c \in Cids |-> CHOOSE p \in pending : p.cid = c]
    <2>1. \A c \in Cids : f[c] \in pending /\ f[c].cid = c
      OBVIOUS
    <2>2. f \in [Cids -> pending]
      BY <2>1
    <2>3. IsFiniteSet(Cids) /\ Cardinality(Cids) = CidCount - 1
      BY FS_Interval, Constants DEF Cids
    <2>4. IsFiniteSet(pending) /\ Cardinality(pending) < Cardinality(Cids)
      BY <2>3, FS_CardinalityType, Constants DEF TablesOK
    <2> HIDE DEF f
    <2>5. \E x, y \in Cids : x # y /\ f[x] = f[y]
      BY <2>2, <2>3, <2>4, FS_PigeonHole
    <2> QED BY <2>1, <2>5
  <1>2. PICK c \in Cids : \A p \in pending : p.cid # c
    BY <1>1
  <1>3. PICK n \in 0 .. CidCount - 1 : CidAfter(n) = c
    <2>1. CidCount \in Nat \ {0} /\ next_cmd_id \in 0 .. CidCount - 1 /\ c \in 0 .. CidCount - 1
      BY Constants DEF NumbersOK, Cids
    <2> QED BY <2>1, ModReaches DEF CidAfter
  <1> DEFINE S == {k \in 0 .. CidCount - 1 :
                     CidAfter(k) # 0 /\ \A p \in pending : p.cid # CidAfter(k)}
  <1>4. S \in SUBSET Nat /\ n \in S
    BY <1>2, <1>3 DEF Cids
  <1>5. Min(S) \in S
    BY <1>4, MinOfNaturals
  <1>6. CidSkips = Min(S)
    BY DEF CidSkips
  <1>7. CidAfter(CidSkips) \in 0 .. CidCount - 1
    <2>1. CidCount \in Nat \ {0} /\ next_cmd_id + CidSkips \in Int
      BY <1>5, <1>6, Constants DEF NumbersOK
    <2> QED BY <2>1, ModRange DEF CidAfter
  <1> QED BY <1>5, <1>6, <1>7 DEF Cids

\* nvme_find_next_submit_context finds a context with work when there is one.
LEMMA NextContextHasWork ==
  ASSUME NumbersOK, \E i \in Index : HasWork(i)
  PROVE  NextContext \in Active /\ HasWork(NextContext)
  <1>1. PICK i \in Index : HasWork(i)
    OBVIOUS
  <1>2. PICK n \in Index : RoundRobin(n) = i
    BY ModReaches, Constants DEF NumbersOK, Index, RoundRobin
  <1> DEFINE S == {k \in Index : HasWork(RoundRobin(k))}
  <1>3. S \in SUBSET Nat /\ n \in S
    BY <1>1, <1>2, Constants DEF Index
  <1>4. Min(S) \in S
    BY <1>3, MinOfNaturals
  <1>5. NextContext = RoundRobin(Min(S))
    BY DEF NextContext
  <1>6. RoundRobin(Min(S)) \in Index
    <2>1. MaxActive \in Nat \ {0} /\ rr + Min(S) \in Int
      BY <1>4, Constants DEF NumbersOK, Index
    <2> HIDE DEF S
    <2> QED BY <2>1, ModRange DEF RoundRobin, Index
  <1> QED BY <1>4, <1>5, <1>6 DEF Active, HasWork

\* The slot of a context tells the context.
LEMMA IndexOfSlot ==
  ASSUME ShapeInv, NEW i \in Active
  PROVE  IndexOf(ctx[i].slot) = i
  BY DEF ShapeInv, IndexOf


------------------------------------------------------------------------------
(* What the parts of a step do to the books.                               *)

\* Whatever is pending belongs to a live context, and is at most one command
\* ahead of what the context has counted.
LEMMA PendingHasContext ==
  ASSUME BookInv, TablesOK, NEW p \in pending
  PROVE  \E i \in Active : p.slot = ctx[i].slot /\ p.idx <= ctx[i].next + 1
  <1>1. /\ \A i \in Active : ctx[i].next \in Nat
        /\ p.idx \in Nat
    BY DEF TablesOK, Active, Contexts, Commands
  <1>2. CASE pc # "bell"
    BY <1>1, <1>2 DEF BookInv, Booked, CountedBy
  <1>3. CASE pc = "bell"
    <2>1. PICK q \in pending : Booked(pending \ {q}) /\ \E i \in Active : PostedBy(i, q)
      BY <1>3 DEF BookInv
    <2>2. CASE p = q
      BY <1>1, <2>1, <2>2 DEF PostedBy
    <2>3. CASE p # q
      BY <1>1, <2>1, <2>3 DEF Booked, CountedBy
    <2> QED BY <2>2, <2>3
  <1> QED BY <1>2, <1>3

\* A context with nothing in flight has no command pending.
LEMMA NothingInFlight ==
  ASSUME TablesOK, Booked(pending), NEW i \in Active, ctx[i].inflight = 0
  PROVE  \A p \in pending : p.slot # ctx[i].slot
  <1> DEFINE C == {p \in pending : p.slot = ctx[i].slot}
  <1>1. Cardinality(C) = 0
    BY DEF Booked
  <1>2. IsFiniteSet(C)
    <2>1. C \in SUBSET pending
      OBVIOUS
    <2> QED BY <2>1, FS_Subset DEF TablesOK
  <1>3. C = {}
    <2> HIDE DEF C
    <2> QED BY <1>1, <1>2, FS_EmptySet
  <1> QED BY <1>3

\* Nothing in flight at all, nothing pending.
LEMMA EmptyBooks ==
  ASSUME TablesOK, Booked(pending)
  PROVE  inflight = 0 <=> pending = {}
  BY FS_EmptySet DEF TablesOK, Booked

\* A completion is always known: the CID at the head of the queue is that of the
\* pending command behind it and of no other.
LEMMA HeadIsPending ==
  ASSUME TablesOK, HostInv, cq # <<>>
  PROVE  /\ Head(cq).cmd \in pending /\ Known(Head(cq))
         /\ \A p \in pending : p.cid = Head(cq).cid => p = Head(cq).cmd
         /\ ~Head(cq).error => <<Head(cq).cmd.slot, Head(cq).cmd.idx>> \in written
  <1>1. Len(cq) \in Nat /\ Len(cq) > 0 /\ Head(cq) = cq[1]
    BY EmptySeq DEF TablesOK
  <1>2. 1 \in 1 .. Len(cq)
    BY <1>1
  <1> QED BY SMTT(30), <1>1, <1>2 DEF HostInv, Known

\* Popping a completion takes its command out of the Host Core and of the table.
LEMMA PopHost ==
  ASSUME TablesOK, HostInv, cq # <<>>, PopCq, pending' = pending \ {Head(cq).cmd}
  PROVE  HostInv' /\ cq' \in Seq(Entries)
  <1>1. Len(cq) \in Nat /\ Len(cq) > 0 /\ Head(cq) = cq[1]
    BY EmptySeq DEF TablesOK
  <1>2. /\ cq' \in Seq(Entries) /\ Len(cq') = Len(cq) - 1
        /\ \A k \in 1 .. Len(cq') : cq'[k] = cq[k + 1]
    BY HeadTailProperties DEF TablesOK, PopCq
  <1>3. \A k \in 1 .. Len(cq') : k + 1 \in 1 .. Len(cq) /\ k + 1 # 1
    BY <1>1, <1>2
  <1>4. UNCHANGED <<bell, dev, written>>
    BY DEF PopCq
  <1>5. \A k \in 1 .. Len(cq) : k # 1 => k - 1 \in 1 .. Len(cq') /\ cq'[k - 1] = cq[k]
    BY <1>1, <1>2
  <1>6. pending' = bell' \cup dev' \cup {cq'[k].cmd : k \in 1 .. Len(cq')}
    <2>1. ASSUME NEW p \in pending'
          PROVE  p \in bell' \cup dev' \cup {cq'[k].cmd : k \in 1 .. Len(cq')}
      BY <1>1, <1>4, <1>5 DEF HostInv
    <2>2. ASSUME NEW p \in bell' \cup dev'
          PROVE  p \in pending'
      <3>1. 1 \in 1 .. Len(cq)
        BY <1>1
      <3> QED BY ZenonT(60), <1>1, <1>4, <3>1 DEF HostInv
    <2>3. ASSUME NEW k \in 1 .. Len(cq')
          PROVE  cq'[k].cmd \in pending'
      BY SMTT(30), <1>1, <1>2, <1>3 DEF HostInv
    <2> QED BY <2>1, <2>2, <2>3
  <1>7. \A k \in 1 .. Len(cq') :
          /\ cq'[k].cid = cq'[k].cmd.cid
          /\ cq'[k].cmd \notin bell' \cup dev'
          /\ ~cq'[k].error => <<cq'[k].cmd.slot, cq'[k].cmd.idx>> \in written'
    BY SMTT(30), <1>2, <1>3, <1>4 DEF HostInv
  <1>8. \A j, k \in 1 .. Len(cq') : cq'[j].cmd = cq'[k].cmd => j = k
    <2> SUFFICES ASSUME NEW j \in 1 .. Len(cq'), NEW k \in 1 .. Len(cq'),
                        cq'[j].cmd = cq'[k].cmd
                 PROVE  j = k
      OBVIOUS
    <2>1. j + 1 = k + 1
      BY <1>2, <1>3 DEF HostInv
    <2> QED BY <2>1
  <1>9. bell' \cap dev' = {} /\ \A p, q \in pending' : p.cid = q.cid => p = q
    BY <1>4 DEF HostInv
  <1> QED BY <1>2, <1>6, <1>7, <1>8, <1>9 DEF HostInv


\* A completion booked on its context: the contexts, the counters and the medium.
LEMMA BookStep ==
  ASSUME TypeOK, HostInv, ShapeInv, MediumInv, Booked(pending), cq # <<>>,
         PopCq, Book(Head(cq)), UNCHANGED <<mode, taken>>
  PROVE  /\ TablesOK' /\ inflight' \in Nat
         /\ HostInv' /\ ShapeInv' /\ MediumInv' /\ Booked(pending)'
         /\ Active' = Active /\ \A i \in Active : ctx'[i].slot = ctx[i].slot
         /\ pending' \subseteq pending
  <1> DEFINE c == Head(cq)
             p == c.cmd
  <1>1. /\ p \in pending /\ \A q \in pending : q.cid = c.cid => q = p
        /\ ~c.error => <<p.slot, p.idx>> \in written
    BY HeadIsPending DEF TypeOK
  <1> HIDE DEF p, c
  <1>2. PICK i \in Active : CountedBy(i, p)
    BY <1>1 DEF Booked
  <1>3. IndexOf(p.slot) = i /\ i \in Index
    BY <1>2, IndexOfSlot DEF CountedBy, Active
  <1>4. /\ pending' = pending \ {p} /\ inflight' = inflight - 1
        /\ seen' = IF Cross THEN seen \cup {c.cid} ELSE seen
        /\ ctx' = [ctx EXCEPT ![i].inflight = @ - 1,
                              ![i].completed = IF c.error THEN @ ELSE @ + 1,
                              ![i].failed = IF c.error THEN @ + 1 ELSE @]
    BY <1>1, <1>3 DEF Book, c
  <1>5. ctx \in [Index -> Contexts] /\ IsFiniteSet(pending) /\ pending \subseteq Commands
    BY DEF TypeOK, TablesOK
  <1>6. /\ ctx[i].slot \in 0 .. NSlots /\ ctx[i].next \in Nat /\ ctx[i].completed \in Nat
        /\ ctx[i].failed \in Nat /\ ctx[i].inflight \in Nat
    BY <1>3, <1>5 DEF Contexts
  <1>7. /\ ctx'[i].slot = ctx[i].slot /\ ctx'[i].next = ctx[i].next
        /\ ctx'[i].completed = IF c.error THEN ctx[i].completed ELSE ctx[i].completed + 1
        /\ ctx'[i].failed = IF c.error THEN ctx[i].failed + 1 ELSE ctx[i].failed
        /\ ctx'[i].inflight = ctx[i].inflight - 1
        /\ \A j \in Index : j # i => ctx'[j] = ctx[j]
    BY <1>3, <1>4, <1>5 DEF Contexts
  <1> DEFINE Of(S, j) == {q \in S : q.slot = ctx[j].slot}
  <1>8. \A j \in Active : IsFiniteSet(Of(pending, j)) /\ ctx[j].inflight = Cardinality(Of(pending, j))
    <2> SUFFICES ASSUME NEW j \in Active
                 PROVE  IsFiniteSet(Of(pending, j)) /\ ctx[j].inflight = Cardinality(Of(pending, j))
      OBVIOUS
    <2>1. Of(pending, j) \in SUBSET pending
      OBVIOUS
    <2>2. IsFiniteSet(Of(pending, j))
      <3> HIDE DEF Of
      <3> QED BY <1>5, <2>1, FS_Subset
    <2> QED BY <2>2 DEF Booked
  <1>9. Of(pending \ {p}, i) = Of(pending, i) \ {p} /\ p \in Of(pending, i)
    BY <1>1, <1>2 DEF CountedBy
  <1>10. \A j \in Active : j # i => Of(pending \ {p}, j) = Of(pending, j)
    BY <1>2 DEF CountedBy, ShapeInv
  <1>11. ctx[i].inflight >= 1 /\ ctx[i].inflight - 1 = Cardinality(Of(pending \ {p}, i))
    <2> HIDE DEF Of
    <2>1. Of(pending, i) # {}
      BY <1>9
    <2>2. ctx[i].inflight # 0
      BY <1>8, <2>1, FS_EmptySet
    <2>3. Cardinality(Of(pending, i) \ {p}) = Cardinality(Of(pending, i)) - 1
      BY <1>8, <1>9, FS_RemoveElement
    <2>4. ctx[i].inflight = Cardinality(Of(pending, i))
      BY <1>8
    <2>5. Cardinality(Of(pending \ {p}, i)) = ctx[i].inflight - 1
      BY <1>9, <2>3, <2>4
    <2>6. ctx[i].inflight >= 1
      BY <1>6, <2>2
    <2> QED BY <2>5, <2>6
  <1>12. inflight' \in Nat /\ inflight' <= QD /\ inflight' = Cardinality(pending')
    <2>1. inflight \in Nat /\ inflight = Cardinality(pending) /\ inflight <= QD
      BY DEF TypeOK, NumbersOK, Booked
    <2>2. inflight # 0
      BY <1>1, <1>5, <2>1, FS_EmptySet
    <2>3. inflight' = Cardinality(pending')
      BY <1>1, <1>4, <1>5, <2>1, FS_RemoveElement
    <2> QED BY <1>4, <2>1, <2>2, <2>3, Constants
  <1>13. IsFiniteSet(pending') /\ pending' \subseteq Commands
    BY <1>4, <1>5, FS_RemoveElement
  <1>14. Active' = Active /\ \A j \in Active : ctx'[j].slot = ctx[j].slot /\ ctx'[j].next = ctx[j].next
    BY <1>3, <1>7 DEF Active
  <1>15. HostInv' /\ cq' \in Seq(Entries)
    BY <1>4, PopHost DEF TypeOK, c, p
  <1>16. TablesOK'
    <2>1. ctx' \in [Index -> [slot : 0 .. NSlots, next : Nat, completed : Nat,
                              failed : Nat, inflight : Int]]
      BY <1>3, <1>4, <1>5 DEF Contexts
    <2>2. ctx' \in [Index -> Contexts]
      <3>1. ctx[i].inflight - 1 \in Nat
        BY <1>6, <1>11
      <3>2. \A j \in Index : ctx'[j].inflight \in Nat
        BY <1>5, <1>7, <3>1 DEF Contexts
      <3> QED BY <2>1, <3>2 DEF Contexts
    <2> QED BY <1>13, <1>15, <2>2 DEF TablesOK
  <1>17. ShapeInv'
    <2>1. ctx'[i].next = ctx'[i].completed + ctx'[i].failed + ctx'[i].inflight
      <3> DEFINE a == ctx[i].completed
                 b == ctx[i].failed
                 d == ctx[i].inflight
      <3>1. a \in Nat /\ b \in Nat /\ d \in Nat /\ ctx'[i].next = a + b + d
        BY <1>2, <1>6, <1>7 DEF ShapeInv
      <3>2. /\ ctx'[i].inflight = d - 1
            /\ \/ ctx'[i].completed = a /\ ctx'[i].failed = b + 1
               \/ ctx'[i].completed = a + 1 /\ ctx'[i].failed = b
        BY <1>7
      <3> HIDE DEF a, b, d, Of
      <3>3. a + b + d = a + (b + 1) + (d - 1) /\ a + b + d = (a + 1) + b + (d - 1)
        BY <3>1
      <3> QED BY <3>1, <3>2, <3>3
    <2>2. \A j \in Active : ctx'[j].next = ctx'[j].completed + ctx'[j].failed + ctx'[j].inflight
      BY <1>7, <2>1 DEF ShapeInv, Active
    <2>3. Cross' = Cross
      BY DEF Cross
    <2> QED BY <1>14, <2>2, <2>3 DEF ShapeInv
  <1>18. MediumInv'
    <2>1. UNCHANGED written
      BY DEF PopCq
    <2>2. ASSUME NEW j \in Active, ctx'[j].failed = 0, NEW k \in 1 .. ctx[j].next
          PROVE  \/ <<ctx[j].slot, k>> \in written
                 \/ \E q \in pending' : q.slot = ctx[j].slot /\ q.idx = k
      <3>1. ctx[j].failed = 0
        BY <1>6, <1>7, <2>2 DEF Active
      <3>2. \/ <<ctx[j].slot, k>> \in written
            \/ \E q \in pending : q.slot = ctx[j].slot /\ q.idx = k
        BY <3>1 DEF MediumInv, Placed
      <3>3. ASSUME NEW q \in pending, q.slot = ctx[j].slot, q.idx = k, q = p
            PROVE  <<ctx[j].slot, k>> \in written
        <4>1. j = i
          BY <1>2, <3>3 DEF CountedBy, ShapeInv
        <4>2. ~c.error
          BY <1>6, <1>7, <2>2, <4>1
        <4> QED BY <1>1, <3>3, <4>2
      <3> QED BY <1>4, <3>2, <3>3
    <2>3. \A j \in Active : ctx'[j].failed = 0 => Placed(ctx'[j], pending', written)
      BY <1>14, <2>2 DEF Placed
    <2> QED BY <1>14, <2>1, <2>3 DEF MediumInv
  <1>19. Booked(pending)'
    <2>1. \A q \in pending' : \E j \in Active : q.slot = ctx'[j].slot /\ q.idx <= ctx'[j].next
      BY <1>4, <1>14 DEF Booked, CountedBy
    <2>2. \A j \in Active : ctx'[j].inflight = Cardinality({q \in pending' : q.slot = ctx'[j].slot})
      <3> SUFFICES ASSUME NEW j \in Active
                   PROVE  ctx'[j].inflight = Cardinality(Of(pending \ {p}, j))
        <4>1. \A j \in Active : {q \in pending' : q.slot = ctx'[j].slot} = Of(pending \ {p}, j)
          BY <1>4, <1>14
        <4> HIDE DEF Of
        <4> QED BY <4>1
      <3>1. CASE j = i
        BY <1>7, <1>11, <3>1
      <3>2. CASE j # i
        <4>1. ctx'[j].inflight = Cardinality(Of(pending, j))
          BY <1>7, <1>8, <3>2 DEF Active
        <4> HIDE DEF Of
        <4> QED BY <1>10, <3>2, <4>1
      <3> QED BY <3>1, <3>2
    <2>3. Cross' => \A q \in pending' : q.cid \notin seen'
      BY <1>1, <1>4 DEF Booked, Cross
    <2> QED BY <1>12, <1>14, <2>1, <2>2, <2>3 DEF Booked, CountedBy
  <1> QED BY <1>4, <1>12, <1>14, <1>15, <1>16, <1>17, <1>18, <1>19


\* The command in the doorbell is the one its context has not counted.
LEMMA PostedIsUncounted ==
  ASSUME TablesOK, ShapeInv, BookInv, pc = "bell"
  PROVE  \E i \in Active : /\ Posted \in pending /\ PostedBy(i, Posted)
                           /\ IndexOf(Posted.slot) = i
                           /\ Booked(pending \ {Posted}) /\ inflight < QD
  <1>1. PICK q \in pending : /\ Booked(pending \ {q}) /\ inflight < QD
                             /\ \E i \in Active : PostedBy(i, q)
    BY DEF BookInv
  <1>2. PICK i \in Active : PostedBy(i, q)
    BY <1>1
  <1>3. IndexOf(q.slot) = i
    BY <1>2, IndexOfSlot DEF PostedBy
  <1>4. q.idx = ctx[IndexOf(q.slot)].next + 1
    BY <1>2, <1>3 DEF PostedBy
  <1>5. ASSUME NEW p \in pending, p # q
        PROVE  p.idx # ctx[IndexOf(p.slot)].next + 1
    <2>1. PICK j \in Active : CountedBy(j, p)
      BY <1>1, <1>5 DEF Booked
    <2>2. IndexOf(p.slot) = j
      BY <2>1, IndexOfSlot DEF CountedBy
    <2>3. p.idx \in Nat /\ ctx[j].next \in Nat
      BY DEF TablesOK, Commands, Contexts, Active
    <2> QED BY <2>1, <2>2, <2>3 DEF CountedBy
  <1>6. Posted = q
    BY <1>4, <1>5 DEF Posted
  <1> QED BY <1>1, <1>2, <1>3, <1>6

\* An answered or a lost doorbell: the command is counted either way.
LEMMA AccountStep ==
  ASSUME TypeOK, HostInv, ShapeInv, MediumInv, BookInv, pc = "bell",
         Account, UNCHANGED <<mode, taken, pending, devVars>>
  PROVE  /\ TablesOK' /\ inflight' \in Nat
         /\ HostInv' /\ ShapeInv' /\ MediumInv' /\ Booked(pending)'
         /\ Active' = Active /\ \A i \in Active : ctx'[i].slot = ctx[i].slot
  <1> DEFINE q == Posted
  <1>1. PICK i \in Active : /\ q \in pending /\ PostedBy(i, q) /\ IndexOf(q.slot) = i
                            /\ Booked(pending \ {q}) /\ inflight < QD
    BY PostedIsUncounted DEF TypeOK
  <1> HIDE DEF q
  <1>2. /\ inflight' = inflight + 1 /\ seen' = seen \ {q.cid}
        /\ ctx' = [ctx EXCEPT ![i].next = @ + 1, ![i].inflight = @ + 1]
    BY <1>1 DEF Account, q
  <1>3. ctx \in [Index -> Contexts] /\ IsFiniteSet(pending) /\ pending \subseteq Commands
    BY DEF TypeOK, TablesOK
  <1>4. i \in Index
    BY DEF Active
  <1>5. /\ ctx[i].slot \in 0 .. NSlots /\ ctx[i].next \in Nat /\ ctx[i].completed \in Nat
        /\ ctx[i].failed \in Nat /\ ctx[i].inflight \in Nat
    BY <1>3, <1>4 DEF Contexts
  <1>6. /\ ctx'[i].slot = ctx[i].slot /\ ctx'[i].next = ctx[i].next + 1
        /\ ctx'[i].completed = ctx[i].completed
        /\ ctx'[i].failed = ctx[i].failed
        /\ ctx'[i].inflight = ctx[i].inflight + 1
        /\ \A j \in Index : j # i => ctx'[j] = ctx[j]
    BY <1>2, <1>3, <1>4 DEF Contexts
  <1>7. ctx' \in [Index -> Contexts]
    BY <1>2, <1>3, <1>4 DEF Contexts
  <1>8. Active' = Active /\ \A j \in Active : ctx'[j].slot = ctx[j].slot
    BY <1>4, <1>6 DEF Active
  <1>9. \A j \in Active : ctx[j].next \in Nat /\ ctx'[j].next \in Nat /\ ctx[j].next <= ctx'[j].next
    BY <1>3, <1>5, <1>6, <1>7 DEF Active, Contexts
  <1> DEFINE Of(S, j) == {p \in S : p.slot = ctx[j].slot}
  <1>10. \A j \in Active : Of(pending \ {q}, j) \in SUBSET pending
    OBVIOUS
  <1>11. \A j \in Active : /\ IsFiniteSet(Of(pending \ {q}, j))
                           /\ ctx[j].inflight = Cardinality(Of(pending \ {q}, j))
    <2>1. \A j \in Active : ctx[j].inflight = Cardinality(Of(pending \ {q}, j))
      BY <1>1 DEF Booked
    <2> HIDE DEF Of
    <2> QED BY <1>3, <1>10, <2>1, FS_Subset
  <1>12. Of(pending, i) = Of(pending \ {q}, i) \cup {q} /\ q \notin Of(pending \ {q}, i)
    BY <1>1 DEF PostedBy
  <1>13. \A j \in Active : j # i => Of(pending, j) = Of(pending \ {q}, j)
    BY <1>1 DEF PostedBy, ShapeInv
  <1>14. \A j \in Active : ctx'[j].inflight = Cardinality(Of(pending, j))
    <2> HIDE DEF Of
    <2>1. Cardinality(Of(pending, i)) = Cardinality(Of(pending \ {q}, i)) + 1
      BY <1>11, <1>12, FS_AddElement
    <2>2. ctx'[i].inflight = Cardinality(Of(pending, i))
      BY <1>6, <1>11, <2>1
    <2>3. \A j \in Active : j # i => ctx'[j].inflight = Cardinality(Of(pending, j))
      BY <1>6, <1>11, <1>13 DEF Active
    <2> QED BY <2>2, <2>3
  <1>15. inflight' = Cardinality(pending) /\ inflight' \in Nat /\ inflight' <= QD
    <2>1. inflight \in Nat /\ inflight < QD /\ inflight = Cardinality(pending \ {q})
      BY <1>1 DEF TypeOK, NumbersOK, Booked
    <2>2. Cardinality(pending \ {q}) = Cardinality(pending) - 1
      BY <1>1, <1>3, FS_RemoveElement
    <2>3. Cardinality(pending) \in Nat
      BY <1>3, FS_CardinalityType
    <2> QED BY <1>2, <2>1, <2>2, <2>3, Constants
  <1>16. HostInv' /\ TablesOK'
    BY <1>7 DEF TypeOK, TablesOK, HostInv, devVars
  <1>17. ShapeInv'
    <2> DEFINE a == ctx[i].completed
               b == ctx[i].failed
               d == ctx[i].inflight
    <2>1. a \in Nat /\ b \in Nat /\ d \in Nat /\ ctx'[i].next = a + b + d + 1
      BY <1>5, <1>6 DEF ShapeInv
    <2>2. ctx'[i].completed = a /\ ctx'[i].failed = b /\ ctx'[i].inflight = d + 1
      BY <1>6
    <2>3. ctx'[i].next = ctx'[i].completed + ctx'[i].failed + ctx'[i].inflight
      <3> HIDE DEF a, b, d, Of
      <3>1. a + b + d + 1 = a + b + (d + 1)
        BY <2>1
      <3> QED BY <2>1, <2>2, <3>1
    <2>4. ctx'[i].next <= CmdsPerSlot
      BY <1>1, <1>3, <1>6 DEF PostedBy, Commands
    <2>5. \A j \in Active :
             /\ ctx'[j].slot <= taken' /\ ctx'[j].next <= CmdsPerSlot
             /\ ctx'[j].next = ctx'[j].completed + ctx'[j].failed + ctx'[j].inflight
      BY <1>6, <1>8, <2>3, <2>4 DEF ShapeInv, Active
    <2>6. Cross' = Cross
      BY DEF Cross
    <2> QED BY <1>8, <2>5, <2>6 DEF ShapeInv
  <1>18. MediumInv'
    <2>1. written' = written /\ pending' = pending
      BY DEF devVars
    <2>2. ASSUME NEW j \in Active, ctx'[j].failed = 0, NEW k \in 1 .. ctx'[j].next
          PROVE  \/ <<ctx[j].slot, k>> \in written
                 \/ \E p \in pending : p.slot = ctx[j].slot /\ p.idx = k
      <3>1. ctx[j].failed = 0
        BY <1>6, <2>2 DEF Active
      <3>2. CASE k \in 1 .. ctx[j].next
        BY <3>1, <3>2 DEF MediumInv, Placed
      <3>3. CASE k \notin 1 .. ctx[j].next
        <4>1. j = i
          BY <1>6, <2>2, <3>3 DEF Active
        <4>2. k = ctx[i].next + 1
          BY <1>5, <1>6, <2>2, <3>3, <4>1
        <4> QED BY <1>1, <4>1, <4>2 DEF PostedBy
      <3> QED BY <3>2, <3>3
    <2>3. \A j \in Active : ctx'[j].failed = 0 => Placed(ctx'[j], pending, written)
      BY <1>8, <2>2 DEF Placed
    <2> QED BY <1>8, <2>1, <2>3 DEF MediumInv
  <1>19. Booked(pending)'
    <2>1. \A p \in pending : \E j \in Active : p.slot = ctx'[j].slot /\ p.idx <= ctx'[j].next
      <3> SUFFICES ASSUME NEW p \in pending
                   PROVE  \E j \in Active : p.slot = ctx'[j].slot /\ p.idx <= ctx'[j].next
        OBVIOUS
      <3>1. p.idx \in Nat
        BY <1>3 DEF Commands
      <3>2. CASE p = q
        BY <1>1, <1>5, <1>6, <3>2 DEF PostedBy
      <3>3. CASE p # q
        <4>1. PICK j \in Active : p.slot = ctx[j].slot /\ p.idx <= ctx[j].next
          BY <1>1, <3>3 DEF Booked, CountedBy
        <4> QED BY <1>8, <1>9, <3>1, <4>1
      <3> QED BY <3>2, <3>3
    <2>2. \A j \in Active : ctx'[j].inflight = Cardinality({p \in pending : p.slot = ctx'[j].slot})
      <3>1. \A j \in Active : {p \in pending : p.slot = ctx'[j].slot} = Of(pending, j)
        BY <1>8
      <3> HIDE DEF Of
      <3> QED BY <1>14, <3>1
    <2>3. Cross' => \A p \in pending : p.cid \notin seen'
      BY <1>1, <1>2 DEF Booked, Cross
    <2> QED BY <1>8, <1>15, <2>1, <2>2, <2>3 DEF Booked, CountedBy
  <1> QED BY <1>8, <1>15, <1>16, <1>17, <1>18, <1>19


\* A command is posted with a CID no pending command has, for the next piece of a
\* slot with work left.
LEMMA SubmitStep ==
  ASSUME TypeOK, HostInv, ShapeInv, MediumInv, Booked(pending), bell = {},
         inflight < QD, \E i \in Index : HasWork(i),
         NEW cmd, cmd = [cid |-> CidAfter(CidSkips), slot |-> ctx[NextContext].slot,
                         idx |-> ctx[NextContext].next + 1],
         pending' = pending \cup {cmd}, bell' = {cmd},
         UNCHANGED <<mode, dev, cq, written, inflight, seen, ctx, taken>>
  PROVE  /\ TablesOK' /\ HostInv' /\ ShapeInv' /\ MediumInv'
         /\ \E q \in pending' : /\ Booked(pending \ {q})' /\ inflight' < QD
                                /\ \E i \in Active' : PostedBy(i, q)'
  <1>1. /\ pending \subseteq Commands /\ IsFiniteSet(pending)
        /\ ctx \in [Index -> Contexts] /\ cq \in Seq(Entries)
    BY DEF TypeOK, TablesOK
  <1>2. /\ CidAfter(CidSkips) \in Cids
        /\ \A p \in pending : p.cid # CidAfter(CidSkips)
    BY FreeCid DEF TypeOK, Booked
  <1>3. NextContext \in Active /\ HasWork(NextContext)
    BY NextContextHasWork DEF TypeOK
  <1>4. PICK n \in Active : n = NextContext
    BY <1>3
  <1>5. /\ n \in Index /\ ctx[n].slot \in 1 .. NSlots
        /\ ctx[n].next \in Nat /\ ctx[n].next < CmdsPerSlot
    BY <1>1, <1>3, <1>4, Constants DEF Active, Contexts, HasWork
  <1>6. cmd \in Commands
    BY <1>2, <1>4, <1>5, Constants DEF Commands, Slots
  <1>7. cmd.cid = CidAfter(CidSkips) /\ cmd.slot = ctx[n].slot /\ cmd.idx = ctx[n].next + 1
    BY <1>4
  <1>8. cmd \notin pending
    BY <1>2, <1>7
  <1>9. IsFiniteSet(pending')
    BY <1>1, FS_AddElement
  <1>10. TablesOK'
    BY <1>1, <1>6, <1>9 DEF TablesOK, Index
  <1>11. HostInv'
    <2>1. pending' = bell' \cup dev' \cup {cq'[k].cmd : k \in 1 .. Len(cq')}
      BY DEF HostInv
    <2>2. \A k \in 1 .. Len(cq) : cq[k].cmd \in pending
      BY DEF HostInv
    <2>3. dev \subseteq pending
      BY DEF HostInv
    <2>4. \A p, q \in pending' : p.cid = q.cid => p = q
      BY <1>2, <1>7 DEF HostInv
    <2>5. \A k \in 1 .. Len(cq') :
            /\ cq'[k].cid = cq'[k].cmd.cid
            /\ cq'[k].cmd \notin bell' \cup dev'
            /\ ~cq'[k].error => <<cq'[k].cmd.slot, cq'[k].cmd.idx>> \in written'
      BY <1>8, <2>2 DEF HostInv
    <2>6. bell' \cap dev' = {}
      BY <1>8, <2>3
    <2>7. \A j, k \in 1 .. Len(cq') : cq'[j].cmd = cq'[k].cmd => j = k
      BY DEF HostInv
    <2> QED BY <2>1, <2>4, <2>5, <2>6, <2>7 DEF HostInv
  <1>12. Active' = Active
    BY DEF Active
  <1>13. ShapeInv'
    BY <1>12 DEF ShapeInv, Cross
  <1>14. MediumInv'
    BY <1>12 DEF MediumInv, Placed
  <1>15. pending' \ {cmd} = pending
    BY <1>8
  <1>16. Booked(pending \ {cmd})'
    BY ZenonT(60), <1>12, <1>15 DEF Booked, CountedBy, Cross
  <1>17. \E i \in Active' : PostedBy(i, cmd)'
    BY <1>7, <1>12 DEF PostedBy
  <1> QED BY <1>10, <1>11, <1>13, <1>14, <1>16, <1>17

\* Contexts with nothing in flight are given back.
LEMMA DropContexts ==
  ASSUME TypeOK, HostInv, ShapeInv, MediumInv, Booked(pending),
         NEW D \in SUBSET Index, \A i \in Active \cap D : ctx[i].inflight = 0,
         ctx' = [i \in Index |-> IF i \in D THEN Idle ELSE ctx[i]],
         UNCHANGED <<mode, devVars, pending, inflight, seen, taken>>
  PROVE  /\ TablesOK' /\ HostInv' /\ ShapeInv' /\ MediumInv' /\ Booked(pending)'
         /\ Active' = Active \ D /\ \A i \in Active \ D : ctx'[i] = ctx[i]
  <1>1. ctx \in [Index -> Contexts]
    BY DEF TypeOK, TablesOK
  <1>2. Idle \in Contexts /\ Idle.slot = 0
    BY Constants DEF Idle, Contexts
  <1>3. ctx' \in [Index -> Contexts]
    <2> HIDE DEF Idle
    <2> QED BY <1>1, <1>2 DEF Idle
  <1>4. Active' = Active \ D
    BY <1>2 DEF Active
  <1>5. \A i \in Active \ D : ctx'[i] = ctx[i]
    BY DEF Active
  <1>6. TablesOK' /\ HostInv'
    BY <1>3 DEF TypeOK, TablesOK, HostInv, devVars, Index
  <1>7. ShapeInv'
    BY <1>4, <1>5 DEF ShapeInv, Cross
  <1>8. MediumInv'
    <2>1. written' = written /\ pending' = pending /\ taken' = taken
      BY DEF devVars
    <2>2. \A i \in Active \ D : ctx'[i].failed = 0 => Placed(ctx'[i], pending, written)
      BY <1>5 DEF MediumInv
    <2> QED BY <1>4, <2>1, <2>2 DEF MediumInv
  <1>9. \A p \in pending : \E i \in Active \ D : CountedBy(i, p)
    <2> SUFFICES ASSUME NEW p \in pending
                 PROVE  \E i \in Active \ D : CountedBy(i, p)
      OBVIOUS
    <2>1. PICK i \in Active : CountedBy(i, p)
      BY DEF Booked
    <2>2. i \notin D
      BY <2>1, NothingInFlight DEF TypeOK, CountedBy
    <2> QED BY <2>1, <2>2
  <1>10. Booked(pending)'
    <2>1. \A p \in pending : \E i \in Active \ D : p.slot = ctx'[i].slot /\ p.idx <= ctx'[i].next
      BY <1>5, <1>9 DEF CountedBy
    <2>2. \A i \in Active \ D :
            ctx'[i].inflight = Cardinality({p \in pending : p.slot = ctx'[i].slot})
      BY <1>5 DEF Booked
    <2>3. Cross' => \A p \in pending : p.cid \notin seen'
      BY DEF Booked, Cross
    <2>4. inflight' = Cardinality(pending') /\ inflight' <= QD
      BY DEF Booked
    <2> QED BY <1>4, <2>1, <2>2, <2>3, <2>4 DEF Booked, CountedBy
  <1> QED BY <1>4, <1>5, <1>6, <1>7, <1>8, <1>10

\* A slot is taken into a free context.
LEMMA TakeStep ==
  ASSUME TypeOK, HostInv, ShapeInv, MediumInv, Booked(pending),
         CanAccept, taken < ready, taken' = taken + 1,
         ctx' = [ctx EXCEPT ![Min(Index \ Active)] = [Idle EXCEPT !.slot = taken + 1]],
         UNCHANGED <<mode, devVars, pending, inflight, seen>>
  PROVE  /\ TablesOK' /\ taken' \in 0 .. NSlots
         /\ HostInv' /\ ShapeInv' /\ MediumInv' /\ Booked(pending)'
         /\ \E k \in Index \ Active : /\ Active' = Active \cup {k} /\ ctx'[k].slot = taken + 1
                                      /\ \A i \in Active : ctx'[i] = ctx[i]
  <1>1. /\ ctx \in [Index -> Contexts] /\ pending \subseteq Commands
        /\ taken \in Nat /\ taken + 1 \in 1 .. NSlots
    BY Constants DEF TypeOK, TablesOK, NumbersOK
  <1>2. Index \ Active \in SUBSET Nat /\ Index \ Active # {} /\ (~Cross => Active = {})
    BY Constants DEF CanAccept, Index, Active
  <1>3. PICK k \in Index \ Active : k = Min(Index \ Active)
    BY <1>2, MinOfNaturals
  <1> DEFINE r == [Idle EXCEPT !.slot = taken + 1]
  <1>4. /\ r \in Contexts /\ r.slot = taken + 1 /\ r.next = 0 /\ r.completed = 0
        /\ r.failed = 0 /\ r.inflight = 0
    BY <1>1, Constants DEF Idle, Contexts
  <1> HIDE DEF r
  <1>5. ctx' = [ctx EXCEPT ![k] = r]
    BY <1>3 DEF r
  <1>6. ctx' \in [Index -> Contexts] /\ ctx'[k] = r /\ \A j \in Index : j # k => ctx'[j] = ctx[j]
    BY <1>1, <1>4, <1>5
  <1>7. Active' = Active \cup {k} /\ \A i \in Active : ctx'[i] = ctx[i]
    BY <1>1, <1>4, <1>6 DEF Active
  <1>8. TablesOK' /\ HostInv'
    BY <1>6 DEF TypeOK, TablesOK, HostInv, devVars, Index
  <1>9. \A i \in Active : ctx[i].slot \in Nat /\ ctx[i].slot <= taken
    BY <1>1 DEF ShapeInv, Active, Contexts
  <1>10. ShapeInv'
    <2>1. \A i, j \in Active \cup {k} : ctx'[i].slot = ctx'[j].slot => i = j
      <3> SUFFICES ASSUME NEW i \in Active \cup {k}, NEW j \in Active \cup {k},
                          ctx'[i].slot = ctx'[j].slot
                   PROVE  i = j
        OBVIOUS
      <3>1. \A m \in Active : ctx'[m].slot # taken + 1
        <4>1. \A n \in Nat : n <= taken => n # taken + 1
          BY <1>1
        <4> QED BY <1>7, <1>9, <4>1
      <3>2. ctx'[k].slot = taken + 1
        BY <1>4, <1>6
      <3> QED BY <1>7, <3>1, <3>2 DEF ShapeInv
    <2>2. \A i \in Active \cup {k} :
             /\ ctx'[i].slot <= taken + 1 /\ ctx'[i].next <= CmdsPerSlot
             /\ ctx'[i].next = ctx'[i].completed + ctx'[i].failed + ctx'[i].inflight
      <3>1. /\ ctx'[k].slot <= taken + 1 /\ ctx'[k].next <= CmdsPerSlot
            /\ ctx'[k].next = ctx'[k].completed + ctx'[k].failed + ctx'[k].inflight
        <4>1. taken + 1 <= taken + 1 /\ 0 <= CmdsPerSlot /\ 0 = 0 + 0 + 0
          BY <1>1, Constants
        <4> QED BY <1>4, <1>6, <4>1
      <3>2. \A i \in Active : ctx'[i].slot <= taken + 1
        BY <1>1, <1>7, <1>9
      <3> QED BY <1>7, <3>1, <3>2 DEF ShapeInv
    <2>3. ~Cross' => \A i, j \in Active \cup {k} : i = j
      BY <1>2 DEF Cross
    <2> QED BY <1>7, <2>1, <2>2, <2>3 DEF ShapeInv
  <1>11. MediumInv'
    <2>1. written' = written /\ pending' = pending
      BY DEF devVars
    <2>2. written' \subseteq (1 .. taken') \X (1 .. CmdsPerSlot)
      <3>1. 1 .. taken \subseteq 1 .. taken'
        BY <1>1
      <3> QED BY <2>1, <3>1 DEF MediumInv
    <2>3. Placed(ctx'[k], pending, written)
      <3>1. 1 .. 0 = {}
        OBVIOUS
      <3>2. ctx'[k].next = 0
        BY <1>4, <1>6
      <3> QED BY <3>1, <3>2 DEF Placed
    <2>4. \A i \in Active : ctx'[i].failed = 0 => Placed(ctx'[i], pending, written)
      BY <1>7 DEF MediumInv
    <2> QED BY <1>7, <2>1, <2>2, <2>3, <2>4 DEF MediumInv
  <1>12. Booked(pending)'
    <2>1. \A p \in pending : \E i \in Active \cup {k} : p.slot = ctx'[i].slot /\ p.idx <= ctx'[i].next
      BY <1>7 DEF Booked, CountedBy
    <2>2. {p \in pending : p.slot = ctx'[k].slot} = {}
      <3>1. \A p \in pending : p.slot \in Nat /\ p.slot <= taken
        BY <1>9 DEF Booked, CountedBy
      <3>2. \A n \in Nat : n <= taken => n # taken + 1
        BY <1>1
      <3> QED BY <1>4, <1>6, <3>1, <3>2
    <2>3. ctx'[k].inflight = Cardinality({p \in pending : p.slot = ctx'[k].slot})
      BY <1>4, <1>6, <2>2, FS_EmptySet
    <2>4. \A i \in Active \cup {k} :
            ctx'[i].inflight = Cardinality({p \in pending : p.slot = ctx'[i].slot})
      BY ZenonT(60), <1>7, <2>3 DEF Booked
    <2> QED BY <1>7, <2>1, <2>4 DEF Booked, CountedBy, Cross
  <1>13. taken' \in 0 .. NSlots
    BY <1>1
  <1>14. \E j \in Index \ Active : /\ Active' = Active \cup {j} /\ ctx'[j].slot = taken + 1
                                    /\ \A i \in Active : ctx'[i] = ctx[i]
    BY <1>4, <1>6, <1>7
  <1> QED BY <1>8, <1>10, <1>11, <1>12, <1>13, <1>14


\* The Host Core takes the posted command.
LEMMA AcceptStep ==
  ASSUME TablesOK, HostInv, HostAccept, UNCHANGED pending
  PROVE  HostInv' /\ UNCHANGED <<cq, written>> /\ bell' \cup dev' = bell \cup dev
  <1>1. UNCHANGED <<cq, written>> /\ dev' = dev \cup bell /\ bell' = {}
    BY DEF HostAccept
  <1> QED BY <1>1 DEF HostInv

\* The drive finishes a command.
LEMMA CompleteStep ==
  ASSUME TablesOK, ShapeInv, HostInv, BookInv, MediumInv, HostComplete,
         UNCHANGED <<pending, ctx, taken>>
  PROVE  /\ HostInv' /\ cq' \in Seq(Entries) /\ MediumInv'
         /\ bell' = bell /\ dev' \subseteq dev /\ written \subseteq written'
  <1>1. PICK c \in dev, error \in BOOLEAN :
          /\ dev' = dev \ {c}
          /\ cq' = Append(cq, [cid |-> c.cid, error |-> error, cmd |-> c])
          /\ written' = IF error THEN written ELSE written \cup {<<c.slot, c.idx>>}
          /\ UNCHANGED bell
    BY DEF HostComplete
  <1>2. c \in pending /\ c \in Commands
    BY DEF HostInv, TablesOK
  <1> DEFINE e == [cid |-> c.cid, error |-> error, cmd |-> c]
  <1>3. e \in Entries /\ e.cid = c.cid /\ e.error = error /\ e.cmd = c
    BY <1>2 DEF Entries, Commands
  <1> HIDE DEF e
  <1>4. cq \in Seq(Entries) /\ cq' = Append(cq, e)
    BY <1>1 DEF TablesOK, e
  <1>5. /\ cq' \in Seq(Entries) /\ Len(cq') = Len(cq) + 1 /\ Len(cq) \in Nat
        /\ cq'[Len(cq) + 1] = e
        /\ \A k \in 1 .. Len(cq) : cq'[k] = cq[k]
    BY <1>3, <1>4, AppendProperties
  <1>6. 1 .. Len(cq') = (1 .. Len(cq)) \cup {Len(cq) + 1}
    BY <1>5
  <1> DEFINE last == Len(cq) + 1
  <1>7. last \notin 1 .. Len(cq)
    BY <1>5
  <1> HIDE DEF last
  <1>8. cq'[last] = e /\ 1 .. Len(cq') = (1 .. Len(cq)) \cup {last}
    BY <1>5, <1>6 DEF last
  <1>9. \A k \in 1 .. Len(cq) : cq[k].cmd # c
    BY DEF HostInv
  <1>10. pending' = bell' \cup dev' \cup {cq'[k].cmd : k \in 1 .. Len(cq')}
    <2>1. {cq'[k].cmd : k \in 1 .. Len(cq')} = {cq[k].cmd : k \in 1 .. Len(cq)} \cup {c}
      BY <1>3, <1>5, <1>8
    <2> QED BY <1>1, <2>1 DEF HostInv
  <1>11. \A k \in 1 .. Len(cq') :
           /\ cq'[k].cid = cq'[k].cmd.cid
           /\ cq'[k].cmd \notin bell' \cup dev'
           /\ ~cq'[k].error => <<cq'[k].cmd.slot, cq'[k].cmd.idx>> \in written'
    <2>1. ASSUME NEW k \in 1 .. Len(cq)
          PROVE  /\ cq'[k].cid = cq'[k].cmd.cid
                 /\ cq'[k].cmd \notin bell' \cup dev'
                 /\ ~cq'[k].error => <<cq'[k].cmd.slot, cq'[k].cmd.idx>> \in written'
      BY <1>1, <1>5 DEF HostInv
    <2>2. /\ e.cid = e.cmd.cid /\ e.cmd \notin bell' \cup dev'
          /\ ~e.error => <<e.cmd.slot, e.cmd.idx>> \in written'
      BY <1>1, <1>3 DEF HostInv
    <2> QED BY <1>8, <2>1, <2>2
  <1>12. \A j, k \in 1 .. Len(cq') : cq'[j].cmd = cq'[k].cmd => j = k
    <2>1. \A j, k \in 1 .. Len(cq) : cq'[j].cmd = cq'[k].cmd => j = k
      BY <1>5 DEF HostInv
    <2>2. \A k \in 1 .. Len(cq) : cq'[k].cmd # cq'[last].cmd
      BY <1>3, <1>5, <1>8, <1>9
    <2> QED BY <1>8, <2>1, <2>2
  <1>13. bell' \cap dev' = {} /\ \A p, q \in pending' : p.cid = q.cid => p = q
    BY <1>1 DEF HostInv
  <1>14. HostInv'
    BY <1>10, <1>11, <1>12, <1>13 DEF HostInv
  <1>15. <<c.slot, c.idx>> \in (1 .. taken) \X (1 .. CmdsPerSlot)
    <2>1. PICK i \in Active : c.slot = ctx[i].slot
      BY <1>2, PendingHasContext
    <2>2. c.slot <= taken
      BY <2>1 DEF ShapeInv
    <2>3. c.slot \in Nat \ {0} /\ c.idx \in 1 .. CmdsPerSlot
      BY <1>2, Constants DEF Commands, Slots
    <2> QED BY <2>2, <2>3
  <1>16. written \subseteq written'
    BY <1>1
  <1>17. MediumInv'
    <2>1. written' \subseteq (1 .. taken') \X (1 .. CmdsPerSlot)
      BY <1>1, <1>15 DEF MediumInv
    <2>2. Active' = Active
      BY DEF Active
    <2>3. \A x : Placed(x, pending, written) => Placed(x, pending', written')
      BY <1>16 DEF Placed
    <2> QED BY <2>1, <2>2, <2>3 DEF MediumInv
  <1> QED BY <1>1, <1>5, <1>14, <1>16, <1>17


------------------------------------------------------------------------------
(* The steps.                                                              *)

Leaving == {"abort", "drain", "settle", "destroy", "done"}

\* What is booked stays booked while the table and the counters stay.
LEMMA KeptBooks ==
  ASSUME BookInv, UNCHANGED <<mode, pending, inflight, seen, ctx>>, pc = "bell" <=> pc' = "bell"
  PROVE  BookInv'
  <1>0. Active' = Active /\ Cross' = Cross
    BY DEF Active, Cross
  <1>1. CASE pc # "bell"
    <2>1. Booked(pending)
      BY <1>1 DEF BookInv
    <2>2. Booked(pending)'
      BY <1>0, <2>1 DEF Booked, CountedBy
    <2> QED BY <1>1, <2>2 DEF BookInv
  <1>2. CASE pc = "bell"
    <2>1. PICK q \in pending : /\ Booked(pending \ {q}) /\ inflight < QD
                               /\ \E i \in Active : PostedBy(i, q)
      BY <1>2 DEF BookInv
    <2>2. Booked(pending \ {q})'
      BY <1>0, <2>1 DEF Booked, CountedBy
    <2>3. q \in pending' /\ inflight' < QD /\ \E i \in Active' : PostedBy(i, q)'
      BY <1>0, <2>1 DEF PostedBy
    <2> QED BY <1>2, <2>2, <2>3 DEF BookInv
  <1> QED BY <1>1, <1>2

\* A step that leaves the books alone keeps what is known about them.
LEMMA QuietBooks ==
  ASSUME IInv, UNCHANGED <<mode, devVars, pending, inflight, seen, ctx, taken, retired>>,
         pc = "bell" <=> pc' = "bell", pc \in Leaving /\ Cross => pc' \in Leaving
  PROVE  /\ TablesOK' /\ HostInv' /\ ShapeInv' /\ BookInv' /\ MediumInv' /\ RetireInv'
         /\ Active' = Active /\ Cross' = Cross
  <1>1. Active' = Active /\ Cross' = Cross
    BY DEF Active, Cross
  <1>2. TablesOK'
    BY DEF IInv, TypeOK, TablesOK, devVars
  <1>3. HostInv'
    BY DEF IInv, HostInv, devVars
  <1>4. ShapeInv'
    BY <1>1 DEF IInv, ShapeInv
  <1>5. BookInv'
    BY KeptBooks DEF IInv
  <1>6. MediumInv'
    BY <1>1 DEF IInv, MediumInv, devVars
  <1>7. RetireInv'
    BY <1>1 DEF IInv, RetireInv, Leaving
  <1> QED BY <1>1, <1>2, <1>3, <1>4, <1>5, <1>6, <1>7

\* With no active context nothing is pending.
LEMMA IdleBooks ==
  ASSUME IInv, Active = {}
  PROVE  pending = {}
  BY PendingHasContext DEF IInv, TypeOK

\* A drawn CID and a moved round robin stay in range.
LEMMA BurnRange ==
  ASSUME IInv, pc # "bell", inflight < QD, \E i \in Index : HasWork(i)
  PROVE  /\ (next_cmd_id + CidSkips + 1) % CidCount \in 0 .. CidCount - 1
         /\ (NextContext + 1) % MaxActive \in Index
  <1>1. CidSkips \in 0 .. CidCount - 1
    BY FreeCid DEF IInv, TypeOK, BookInv, Booked
  <1>2. NextContext \in Index
    BY NextContextHasWork DEF IInv, TypeOK, Active
  <1>3. CidCount \in Nat \ {0} /\ MaxActive \in Nat \ {0}
    BY Constants
  <1>4. next_cmd_id + CidSkips + 1 \in Int /\ NextContext + 1 \in Int
    BY <1>1, <1>2, <1>3 DEF IInv, TypeOK, NumbersOK, Index
  <1> QED BY <1>3, <1>4, ModRange DEF Index

Beginning == Create \/ SeeAbort \/ GoOn
Round == StepHead \/ IdleRound \/ GiveUp \/ PollEmpty \/ RefillEnds
Draining == BeginDrain \/ Settle \/ DrainSerialEnds \/ FailFatal \/ End \/ Destroy
Producing == Push \/ AbortLoad \/ AbortStore \/ Close \/ Ended

\* The writer begins its loop, sees an abort, or goes on with what it has.
LEMMA BeginningStep ==
  ASSUME IInv, Beginning
  PROVE  IInv'
  <1>1. UNCHANGED <<mode, devVars, bookVars, endVars, taken, prodVars>>
    BY DEF Beginning, Create, SeeAbort, GoOn
  <1>2. /\ pc \in {"create", "loop"}
        /\ pc' \in {"loop", "head"} \/ (pc' = "abort" /\ Cross) \/ pc' = "end"
        /\ pc' = "end" => Active = {}
        /\ pc' = "loop" => pc = "create"
        /\ pc' = "head" => Active # {}
    <2>1. CASE Create
      BY <2>1 DEF Create
    <2>2. CASE SeeAbort
      BY <2>2 DEF SeeAbort, IInv, EndInv
    <2>3. CASE GoOn
      BY <2>3 DEF GoOn
    <2> QED BY <2>1, <2>2, <2>3 DEF Beginning
  <1>3. /\ TablesOK' /\ HostInv' /\ ShapeInv' /\ BookInv' /\ MediumInv' /\ RetireInv'
        /\ Active' = Active /\ Cross' = Cross
    BY <1>1, <1>2, QuietBooks DEF bookVars, endVars, Leaving
  <1>4. PlaceOK' /\ NumbersOK'
    BY <1>1, <1>2 DEF IInv, TypeOK, PlaceOK, Places, NumbersOK, bookVars, prodVars, Index
  <1>5. pc' = "end" => pending = {}
    BY <1>2, IdleBooks
  <1>6. EndInv'
    BY <1>1, <1>2, <1>3, <1>5 DEF IInv, EndInv, devVars, bookVars, endVars, prodVars
  <1> QED BY <1>3, <1>4, <1>6 DEF IInv, TypeOK


\* A round of the loop that books and submits nothing.
LEMMA RoundStep ==
  ASSUME IInv, Round
  PROVE  IInv'
  <1>1. /\ UNCHANGED <<mode, devVars, pending, inflight, seen, ctx, endVars, taken, prodVars>>
        /\ pc \in {"head", "poll", "refill"}
        /\ (pc' \in {"abort", "loop"} /\ Cross) \/ pc' \in {"head", "poll", "retire"}
           \/ (pc' = "fail" /\ ~Cross /\ Abandons')
        /\ next_cmd_id' \in 0 .. CidCount - 1 /\ rr' \in Index
    <2>1. CASE StepHead
      BY <2>1 DEF StepHead, SeesStop, bookVars, IInv, TypeOK, NumbersOK
    <2>2. CASE IdleRound
      <3>1. /\ pc = "head" /\ Burns /\ BurnCid
            /\ UNCHANGED <<mode, devVars, pc, endVars, taken, prodVars>>
        BY <2>2 DEF IdleRound
      <3>2. next_cmd_id' \in 0 .. CidCount - 1 /\ rr' \in Index
        BY <3>1, BurnRange DEF Burns, BurnCid
      <3> QED BY <3>1, <3>2 DEF BurnCid
    <2>3. CASE GiveUp
      <3>1. /\ pc = "head" /\ pc' = Failing /\ why' = "no_progress"
            /\ UNCHANGED <<mode, devVars, bookVars, endVars, taken, prodVars>>
        BY <2>3 DEF GiveUp, Fail
      <3> QED BY <3>1 DEF Failing, Abandons, Cross, bookVars, IInv, TypeOK, NumbersOK
    <2>4. CASE PollEmpty
      BY <2>4 DEF PollEmpty, bookVars, IInv, TypeOK, NumbersOK
    <2>5. CASE RefillEnds
      <3>1. /\ pc = "refill"
            /\ (pc' \in {"abort", "loop"} /\ Cross) \/ pc' = "head"
            /\ UNCHANGED bookVars \/ (Burns /\ BurnCid)
            /\ UNCHANGED <<mode, devVars, endVars, taken, prodVars>>
        BY <2>5 DEF RefillEnds, SeesStop
      <3>2. next_cmd_id' \in 0 .. CidCount - 1 /\ rr' \in Index
        <4>1. CASE UNCHANGED bookVars
          BY <4>1 DEF bookVars, IInv, TypeOK, NumbersOK
        <4>2. CASE Burns /\ BurnCid
          BY <3>1, <4>2, BurnRange DEF Burns, BurnCid
        <4> QED BY <3>1, <4>1, <4>2
      <3>3. UNCHANGED <<pending, inflight, seen, ctx>>
        BY <3>1 DEF BurnCid, bookVars
      <3> QED BY <3>1, <3>2, <3>3
    <2> QED BY <2>1, <2>2, <2>3, <2>4, <2>5 DEF Round
  <1>2. /\ TablesOK' /\ HostInv' /\ ShapeInv' /\ BookInv' /\ MediumInv' /\ RetireInv'
        /\ Active' = Active /\ Cross' = Cross
    BY <1>1, QuietBooks DEF endVars, Leaving
  <1>3. PlaceOK' /\ NumbersOK'
    BY <1>1 DEF IInv, TypeOK, PlaceOK, Places, NumbersOK, prodVars
  <1>4. EndInv'
    BY <1>1, <1>2 DEF IInv, EndInv, devVars, endVars, prodVars
  <1> QED BY <1>2, <1>3, <1>4 DEF IInv, TypeOK

\* The writer drains, settles and leaves; the books are as they are.
LEMMA DrainingStep ==
  ASSUME IInv, Draining
  PROVE  IInv'
  <1>1. /\ UNCHANGED <<mode, devVars, bookVars, retired, taken, prodVars>>
        /\ pc \in {"abort", "settle", "drain", "fail", "end", "destroy"}
        /\ pc' \in {"drain", "destroy", "fail", "retire", "done"}
        /\ pc \in Leaving /\ Cross => pc' \in Leaving
    <2>1. CASE BeginDrain
      BY <2>1 DEF BeginDrain, Leaving, endVars
    <2>2. CASE Settle
      BY <2>2 DEF Settle, Leaving
    <2>3. CASE DrainSerialEnds
      BY <2>3 DEF DrainSerialEnds
    <2>4. CASE FailFatal
      BY <2>4 DEF FailFatal, Leaving
    <2>5. CASE End
      BY <2>5 DEF End, Leaving
    <2>6. CASE Destroy
      BY <2>6 DEF Destroy, endVars, Leaving
    <2> QED BY <2>1, <2>2, <2>3, <2>4, <2>5, <2>6 DEF Draining
  <1>2. /\ TablesOK' /\ HostInv' /\ ShapeInv' /\ BookInv' /\ MediumInv' /\ RetireInv'
        /\ Active' = Active /\ Cross' = Cross
    BY <1>1, QuietBooks DEF bookVars
  <1>3. PlaceOK' /\ NumbersOK'
    BY <1>1 DEF IInv, TypeOK, PlaceOK, Places, NumbersOK, prodVars, bookVars
  <1>4. ~joined /\ ~closed /\ ~joined' /\ ~closed'
    BY <1>1 DEF IInv, EndInv, prodVars
  <1>5. bell' = bell /\ pending' = pending
    BY <1>1 DEF devVars, bookVars
  <1>6. EndInv'
    <2>1. CASE BeginDrain
      BY <1>2, <1>4, <1>5, <2>1 DEF BeginDrain, IInv, EndInv
    <2>2. CASE Settle
      BY <1>2, <1>4, <1>5, <2>2 DEF Settle, IInv, EndInv
    <2>3. CASE DrainSerialEnds
      <3>1. /\ pc = "drain" /\ ~Cross
            /\ (inflight = 0 /\ pc' \in {"retire", "fail"}) \/ (pc' = "fail" /\ unresolved')
        BY <2>3 DEF DrainSerialEnds
      <3>2. inflight = 0 => pending = {}
        BY <3>1, EmptyBooks DEF IInv, TypeOK, BookInv
      <3>3. bell \subseteq pending
        BY DEF IInv, HostInv
      <3> QED BY <1>2, <1>4, <1>5, <3>1, <3>2, <3>3 DEF EndInv
    <2>4. CASE FailFatal
      BY <1>1, <1>2, <1>4, <1>5, <2>4 DEF FailFatal, IInv, EndInv, Abandons
    <2>5. CASE End
      BY <1>1, <1>2, <1>4, <1>5, <2>5 DEF End, IInv, EndInv, Abandons
    <2>6. CASE Destroy
      BY <1>1, <1>2, <1>4, <1>5, <2>6 DEF Destroy, IInv, EndInv, endVars
    <2> QED BY <2>1, <2>2, <2>3, <2>4, <2>5, <2>6 DEF Draining
  <1> QED BY <1>2, <1>3, <1>6 DEF IInv, TypeOK

\* The producer thread and stuttering.
LEMMA ProducingStep ==
  ASSUME IInv, Producing \/ UNCHANGED vars
  PROVE  IInv'
  <1>1. /\ UNCHANGED <<mode, devVars, pc, bookVars, why, endVars, taken>>
        /\ ready' \in 0 .. NSlots
        /\ UNCHANGED <<joined, closed>>
           \/ (pc = "done" /\ joined' /\ (closed' => quiesced /\ ~unresolved))
    <2>1. CASE Push
      BY <2>1, Constants DEF Push, IInv, TypeOK, NumbersOK
    <2>2. CASE AbortLoad
      BY <2>2 DEF AbortLoad, IInv, TypeOK, NumbersOK
    <2>3. CASE AbortStore
      BY <2>3 DEF AbortStore, IInv, TypeOK, NumbersOK
    <2>4. CASE Close
      BY <2>4 DEF Close, IInv, TypeOK, NumbersOK
    <2>5. CASE UNCHANGED vars
      BY <2>5 DEF vars, prodVars, IInv, TypeOK, NumbersOK
    <2> QED BY <2>1, <2>2, <2>3, <2>4, <2>5 DEF Producing, Ended
  <1>2. /\ TablesOK' /\ HostInv' /\ ShapeInv' /\ BookInv' /\ MediumInv' /\ RetireInv'
        /\ Active' = Active /\ Cross' = Cross
    BY <1>1, QuietBooks DEF bookVars, endVars
  <1>3. PlaceOK' /\ NumbersOK'
    BY <1>1 DEF IInv, TypeOK, PlaceOK, NumbersOK, bookVars
  <1>4. EndInv'
    BY <1>1, <1>2 DEF IInv, EndInv, devVars, bookVars, endVars, Abandons
  <1> QED BY <1>2, <1>3, <1>4 DEF IInv, TypeOK


\* The Host Core.
LEMMA DeviceStep ==
  ASSUME IInv, Device
  PROVE  IInv'
  <1>1. UNCHANGED <<mode, pc, bookVars, why, endVars, taken, prodVars>>
    BY DEF Device
  <1>2. /\ UNCHANGED <<mode, pc, pending, inflight, seen, ctx, taken, next_cmd_id, rr>>
        /\ Active' = Active /\ Cross' = Cross
    BY <1>1 DEF bookVars, Active, Cross
  <1>3. HostInv' /\ cq' \in Seq(Entries) /\ MediumInv' /\ (bell # {} \/ bell' = {})
    <2>1. CASE HostAccept
      <3>1. HostInv' /\ UNCHANGED <<cq, written>> /\ bell # {}
        BY <1>2, <2>1, AcceptStep DEF IInv, TypeOK, HostAccept
      <3> QED BY <1>2, <3>1 DEF IInv, MediumInv, TypeOK, TablesOK
    <2>2. CASE HostComplete
      BY <1>2, <2>2, CompleteStep DEF IInv, TypeOK
    <2> QED BY <2>1, <2>2 DEF Device
  <1>4. TablesOK' /\ PlaceOK' /\ NumbersOK'
    BY <1>1, <1>2, <1>3 DEF IInv, TypeOK, TablesOK, PlaceOK, NumbersOK, prodVars
  <1>5. ShapeInv'
    BY <1>2 DEF IInv, ShapeInv
  <1>6. BookInv'
    BY <1>2, KeptBooks DEF IInv
  <1>7. RetireInv'
    BY <1>1, <1>2 DEF IInv, RetireInv, endVars
  <1>8. EndInv'
    BY <1>1, <1>2, <1>3 DEF IInv, EndInv, endVars, prodVars, Abandons
  <1> QED BY <1>3, <1>4, <1>5, <1>6, <1>7, <1>8 DEF IInv, TypeOK

\* A slot is taken from the queue.
LEMMA TakeSlotStep ==
  ASSUME IInv, TakeSlot
  PROVE  IInv'
  <1>1. /\ pc = "loop" /\ CanAccept /\ taken < ready /\ taken' = taken + 1
        /\ ctx' = [ctx EXCEPT ![Min(Index \ Active)] = [Idle EXCEPT !.slot = taken + 1]]
        /\ pc' = (IF Cross THEN "head" ELSE "refill")
        /\ UNCHANGED <<mode, devVars, next_cmd_id, pending, inflight, seen, rr, why,
                       endVars, prodVars>>
    BY DEF TakeSlot
  <1>2. /\ TablesOK' /\ taken' \in 0 .. NSlots
        /\ HostInv' /\ ShapeInv' /\ MediumInv' /\ Booked(pending)'
        /\ \E k \in Index \ Active : /\ Active' = Active \cup {k} /\ ctx'[k].slot = taken + 1
                                     /\ \A i \in Active : ctx'[i] = ctx[i]
    BY <1>1, TakeStep DEF IInv, BookInv
  <1>3. BookInv'
    BY <1>1, <1>2 DEF BookInv
  <1>4. PlaceOK' /\ NumbersOK'
    BY <1>1, <1>2 DEF IInv, TypeOK, PlaceOK, Places, NumbersOK, prodVars
  <1>5. RetireInv'
    <2>1. retired' = retired /\ retired \subseteq 1 .. taken /\ taken \in Nat
      BY <1>1 DEF IInv, RetireInv, TypeOK, NumbersOK, endVars
    <2>2. PICK k \in Index \ Active : /\ Active' = Active \cup {k} /\ ctx'[k].slot = taken + 1
                                      /\ \A i \in Active : ctx'[i] = ctx[i]
      BY <1>2
    <2>3. taken + 1 \notin retired
      BY <2>1
    <2>4. \A i \in Active : ctx[i].slot \notin retired
      BY <1>1 DEF IInv, RetireInv
    <2>5. \A i \in Active' : ctx'[i].slot \notin retired'
      BY <2>1, <2>2, <2>3, <2>4
    <2>6. retired' \subseteq 1 .. taken'
      BY <1>1, <2>1
    <2> QED BY <2>5, <2>6 DEF RetireInv
  <1>6. EndInv'
    BY <1>1 DEF IInv, EndInv, devVars, endVars, prodVars, Cross
  <1> QED BY <1>2, <1>3, <1>4, <1>5, <1>6 DEF IInv, TypeOK

\* A command is posted.
LEMMA PostStep ==
  ASSUME IInv, Submit
  PROVE  IInv'
  <1> DEFINE cmd == [cid |-> CidAfter(CidSkips), slot |-> ctx[NextContext].slot,
                     idx |-> ctx[NextContext].next + 1]
  <1>1. /\ pc = "refill" /\ CanSubmit /\ pc' = "bell"
        /\ pending' = pending \cup {cmd} /\ bell' = {cmd}
        /\ next_cmd_id' = (next_cmd_id + CidSkips + 1) % CidCount
        /\ rr' = (NextContext + 1) % MaxActive
        /\ UNCHANGED <<mode, dev, cq, written, inflight, seen, ctx, why, endVars, taken, prodVars>>
    BY DEF Submit
  <1> HIDE DEF cmd
  <1>2. bell = {} /\ inflight < QD /\ \E i \in Index : HasWork(i)
    BY <1>1 DEF IInv, EndInv, CanSubmit
  <1>3. /\ TablesOK' /\ HostInv' /\ ShapeInv' /\ MediumInv'
        /\ \E q \in pending' : /\ Booked(pending \ {q})' /\ inflight' < QD
                               /\ \E i \in Active' : PostedBy(i, q)'
    BY <1>1, <1>2, SubmitStep DEF IInv, BookInv, cmd
  <1>4. BookInv'
    BY <1>1, <1>3 DEF BookInv
  <1>5. Active' = Active /\ Cross' = Cross
    BY <1>1 DEF Active, Cross
  <1>6. PlaceOK' /\ NumbersOK'
    BY <1>1, <1>2, BurnRange DEF IInv, TypeOK, PlaceOK, Places, NumbersOK, prodVars
  <1>7. RetireInv'
    BY <1>1, <1>5 DEF IInv, RetireInv, endVars
  <1>8. EndInv'
    BY <1>1, <1>5 DEF IInv, EndInv, endVars, prodVars
  <1> QED BY <1>3, <1>4, <1>6, <1>7, <1>8 DEF IInv, TypeOK

\* The doorbell is answered, or the wait for it gives up.
LEMMA BellStep ==
  ASSUME IInv, Accepted \/ AcceptanceUnknown
  PROVE  IInv'
  <1>1. /\ pc = "bell" /\ Account
        /\ (pc' = "refill" /\ bell = {}) \/ (pc' = "abort" /\ Cross) \/ (pc' = "drain" /\ ~Cross)
        /\ UNCHANGED <<mode, devVars, pending, endVars, taken, prodVars>>
    BY DEF Accepted, AcceptanceUnknown
  <1>2. /\ TablesOK' /\ inflight' \in Nat
        /\ HostInv' /\ ShapeInv' /\ MediumInv' /\ Booked(pending)'
        /\ Active' = Active /\ \A i \in Active : ctx'[i].slot = ctx[i].slot
    BY <1>1, AccountStep DEF IInv
  <1>3. BookInv'
    BY <1>1, <1>2 DEF BookInv
  <1>4. PlaceOK' /\ NumbersOK'
    BY <1>1, <1>2 DEF Account, IInv, TypeOK, PlaceOK, Places, NumbersOK, prodVars
  <1>5. RetireInv'
    BY <1>1, <1>2 DEF IInv, RetireInv, endVars
  <1>6. EndInv'
    BY <1>1, <1>2 DEF IInv, EndInv, devVars, endVars, prodVars, Cross
  <1> QED BY <1>2, <1>3, <1>4, <1>5, <1>6 DEF IInv, TypeOK


Completing == Poll \/ DrainCross \/ DrainSerial

\* A completion is booked, in the loop or while draining.
LEMMA CompletingStep ==
  ASSUME IInv, Completing
  PROVE  IInv'
  <1>1. cq # <<>>
    BY DEF Completing, Poll, DrainCross, DrainSerial
  <1>2. Known(Head(cq))
    BY <1>1, HeadIsPending DEF IInv, TypeOK
  <1>3. /\ PopCq /\ Book(Head(cq))
        /\ \/ pc = "poll" /\ pc' \in {"poll", "retire"}
           \/ pc = "poll" /\ pc' = "abort" /\ Cross
           \/ pc = "drain" /\ pc' = "drain"
           \/ pc \in {"poll", "drain"} /\ pc' = "fail" /\ ~Cross /\ Abandons'
        /\ UNCHANGED <<mode, quiesced, retired, taken, prodVars>>
    <2>1. CASE Poll
      <3>1. /\ PopCq /\ Book(Head(cq)) /\ pc = "poll"
            /\ pc' \in {"poll", "retire"} \/ (pc' = Failing /\ Fail("completion_error"))
            /\ UNCHANGED <<mode, endVars, taken, prodVars>>
        BY <1>2, <2>1 DEF Poll
      <3> QED BY <3>1 DEF Failing, Fail, Abandons, Cross, endVars
    <2>2. CASE DrainCross
      BY <1>2, <2>2 DEF DrainCross, endVars
    <2>3. CASE DrainSerial
      <3>1. /\ PopCq /\ Book(Head(cq)) /\ pc = "drain" /\ ~Cross
            /\ pc' = pc \/ (pc' = "fail" /\ why' = "completion_error")
            /\ UNCHANGED <<mode, quiesced, retired, taken, prodVars>>
        BY <1>2, <2>3 DEF DrainSerial
      <3> QED BY <3>1 DEF Abandons, Cross
    <2> QED BY <2>1, <2>2, <2>3 DEF Completing
  <1>4. /\ TablesOK' /\ inflight' \in Nat
        /\ HostInv' /\ ShapeInv' /\ MediumInv' /\ Booked(pending)'
        /\ Active' = Active /\ \A i \in Active : ctx'[i].slot = ctx[i].slot
    BY <1>1, <1>3, BookStep DEF IInv, BookInv
  <1>5. BookInv'
    BY <1>3, <1>4 DEF BookInv
  <1>6. UNCHANGED <<next_cmd_id, rr, bell>> /\ Cross' = Cross
    BY <1>3 DEF Book, PopCq, Cross
  <1>7. PlaceOK' /\ NumbersOK'
    BY <1>3, <1>4, <1>6 DEF IInv, TypeOK, PlaceOK, Places, NumbersOK, prodVars
  <1>8. RetireInv'
    BY <1>3, <1>4, <1>6 DEF IInv, RetireInv
  <1>9. EndInv'
    BY <1>3, <1>4, <1>6 DEF IInv, EndInv, prodVars
  <1> QED BY <1>4, <1>5, <1>7, <1>8, <1>9 DEF IInv, TypeOK

\* The slot callback.
LEMMA RetireStep ==
  ASSUME IInv, Retire
  PROVE  IInv'
  <1>1. /\ pc = "retire"
        /\ UNCHANGED <<mode, devVars, next_cmd_id, pending, inflight, seen, rr, unresolved,
                       quiesced, taken, prodVars>>
    BY DEF Retire
  <1>2. Drained \subseteq Active /\ Active \subseteq Index
    BY DEF Drained, Active
  <1>3. \E D, R \in SUBSET Drained :
          /\ ctx' = [i \in Index |-> IF i \in D THEN Idle ELSE ctx[i]]
          /\ retired' = retired \cup {ctx[i].slot : i \in R}
          /\ R \subseteq D \/ (Cross /\ pc' = "abort")
          /\ ~Cross => D = Drained
          /\ \/ pc' = "refill"
             \/ pc' = "loop" /\ ~Cross /\ Drained # {}
             \/ pc' = "abort" /\ Cross
             \/ pc' = "fail" /\ ~Cross /\ Drained # {}
    <2>1. CASE /\ retired' = retired \cup {ctx[i].slot : i \in Drained}
               /\ ctx' = [i \in Index |-> IF i \in Drained THEN Idle ELSE ctx[i]]
               /\ pc' = IF Cross \/ Drained = {} THEN "refill" ELSE "loop"
      <3>1. \/ pc' = "refill"
            \/ pc' = "loop" /\ ~Cross /\ Drained # {}
        BY <2>1
      <3> QED BY <2>1, <3>1
    <2>2. ASSUME NEW bad \in Drained,
                 retired' = retired \cup {ctx[i].slot : i \in {j \in Drained : j <= bad}},
                 ctx' = [i \in Index |-> IF i \in Drained /\ (i < bad \/ ~Cross)
                                         THEN Idle ELSE ctx[i]],
                 pc' = Failing
          PROVE  \E D, R \in SUBSET Drained :
                   /\ ctx' = [i \in Index |-> IF i \in D THEN Idle ELSE ctx[i]]
                   /\ retired' = retired \cup {ctx[i].slot : i \in R}
                   /\ R \subseteq D \/ (Cross /\ pc' = "abort")
                   /\ ~Cross => D = Drained
                   /\ \/ pc' = "refill"
                      \/ pc' = "loop" /\ ~Cross /\ Drained # {}
                      \/ pc' = "abort" /\ Cross
                      \/ pc' = "fail" /\ ~Cross /\ Drained # {}
      <3> DEFINE D == {i \in Drained : i < bad \/ ~Cross}
                 R == {j \in Drained : j <= bad}
      <3>1. ctx' = [i \in Index |-> IF i \in D THEN Idle ELSE ctx[i]]
        BY <2>2
      <3>2. /\ R \subseteq D \/ (Cross /\ pc' = "abort")
            /\ ~Cross => D = Drained
            /\ (pc' = "abort" /\ Cross) \/ (pc' = "fail" /\ ~Cross /\ Drained # {})
        BY <2>2 DEF Failing
      <3>3. D \in SUBSET Drained /\ R \in SUBSET Drained
            /\ retired' = retired \cup {ctx[i].slot : i \in R}
        BY <2>2
      <3> HIDE DEF D, R
      <3> QED BY <3>1, <3>2, <3>3
    <2> QED BY <2>1, <2>2 DEF Retire
  <1>4. PICK D \in SUBSET Drained, R \in SUBSET Drained :
          /\ ctx' = [i \in Index |-> IF i \in D THEN Idle ELSE ctx[i]]
          /\ retired' = retired \cup {ctx[i].slot : i \in R}
          /\ R \subseteq D \/ (Cross /\ pc' = "abort")
          /\ ~Cross => D = Drained
          /\ \/ pc' = "refill"
             \/ pc' = "loop" /\ ~Cross /\ Drained # {}
             \/ pc' = "abort" /\ Cross
             \/ pc' = "fail" /\ ~Cross /\ Drained # {}
    BY <1>3
  <1>5. \A i \in Active \cap D : ctx[i].inflight = 0
    BY DEF Drained
  <1>6. /\ TablesOK' /\ HostInv' /\ ShapeInv' /\ MediumInv' /\ Booked(pending)'
        /\ Active' = Active \ D /\ \A i \in Active \ D : ctx'[i] = ctx[i]
    BY <1>1, <1>2, <1>4, <1>5, DropContexts DEF IInv, BookInv
  <1>7. BookInv'
    BY <1>4, <1>6 DEF BookInv
  <1>8. Cross' = Cross
    BY <1>1 DEF Cross
  <1>9. PlaceOK' /\ NumbersOK'
    BY <1>1, <1>4 DEF IInv, TypeOK, PlaceOK, Places, NumbersOK, prodVars
  <1>10. RetireInv'
    <2>1. \A i \in Active : ctx[i].slot \in 1 .. taken
      <3>1. \A i \in Active : ctx[i].slot \in Nat \ {0} /\ ctx[i].slot <= taken
        BY DEF IInv, TypeOK, TablesOK, Contexts, Active, ShapeInv
      <3>2. taken \in Nat
        BY DEF IInv, TypeOK, NumbersOK
      <3> QED BY <3>1, <3>2
    <2>2. retired' \subseteq 1 .. taken'
      BY <1>1, <1>2, <1>4, <2>1 DEF IInv, RetireInv
    <2>3. \A i \in Active : ctx[i].slot \notin retired
      BY <1>1 DEF IInv, RetireInv
    <2>4. ASSUME NEW i \in Active \ D, ctx[i].slot \in retired'
          PROVE  Cross /\ pc' = "abort"
      <3>1. PICK j \in R : ctx[j].slot = ctx[i].slot
        BY <1>4, <2>3, <2>4
      <3>2. j = i
        BY <1>2, <3>1 DEF IInv, ShapeInv
      <3> QED BY <1>4, <3>1, <3>2
    <2> QED BY <1>6, <1>8, <2>2, <2>4 DEF RetireInv
  <1>11. ~Cross /\ Drained # {} => Active' = {} /\ pending' = {}
    <2>1. ~Cross /\ Drained # {} => Active' = {}
      BY <1>2, <1>4, <1>6 DEF IInv, ShapeInv
    <2>2. Active' = {} => pending' = {}
      BY <1>6 DEF Booked
    <2> QED BY <2>1, <2>2
  <1>12. bell' = {} /\ ~joined' /\ ~closed'
    BY <1>1 DEF IInv, EndInv, devVars, prodVars
  <1>13. EndInv'
    BY <1>4, <1>8, <1>11, <1>12 DEF EndInv
  <1> QED BY <1>6, <1>7, <1>9, <1>10, <1>13 DEF IInv, TypeOK

\* The drain of the cross-slot engine ends, empty or at its deadline.
LEMMA DrainEndsStep ==
  ASSUME IInv, DrainEnds
  PROVE  IInv'
  <1>1. /\ pc = "drain" /\ Cross /\ pc' = "settle"
        /\ UNCHANGED <<mode, devVars, endVars, taken, prodVars>>
        /\ (inflight = 0 /\ DiscardContexts) \/ UNCHANGED bookVars
    BY DEF DrainEnds
  <1>2. CASE UNCHANGED bookVars
    <2>1. /\ TablesOK' /\ HostInv' /\ ShapeInv' /\ BookInv' /\ MediumInv' /\ RetireInv'
          /\ Active' = Active /\ Cross' = Cross
      BY <1>1, <1>2, QuietBooks DEF bookVars, endVars, Leaving
    <2>2. PlaceOK' /\ NumbersOK'
      BY <1>1, <1>2 DEF IInv, TypeOK, PlaceOK, Places, NumbersOK, bookVars, prodVars
    <2>3. EndInv'
      BY <1>1, <1>2, <2>1 DEF IInv, EndInv, devVars, bookVars, endVars, prodVars
    <2> QED BY <2>1, <2>2, <2>3 DEF IInv, TypeOK
  <1>3. CASE inflight = 0 /\ DiscardContexts
    <2>1. Booked(pending)
      BY <1>1 DEF IInv, BookInv
    <2>2. pending = {}
      BY <1>3, <2>1, EmptyBooks DEF IInv, TypeOK
    <2>3. \A i \in Active : ctx[i].inflight = 0
      <3>1. \A i \in Active : {p \in pending : p.slot = ctx[i].slot} = {}
        BY <2>2
      <3> QED BY <2>1, <3>1, FS_EmptySet DEF Booked
    <2>4. /\ pending' = pending /\ inflight' = inflight /\ UNCHANGED <<next_cmd_id, seen, rr>>
          /\ ctx' = [i \in Index |-> Idle]
      BY <1>3, <2>2 DEF DiscardContexts
    <2>5. ctx' = [i \in Index |-> IF i \in Index THEN Idle ELSE ctx[i]]
      BY <2>4
    <2>6. /\ TablesOK' /\ HostInv' /\ ShapeInv' /\ MediumInv' /\ Booked(pending)'
          /\ Active' = Active \ Index
      BY <1>1, <2>1, <2>3, <2>4, <2>5, DropContexts DEF IInv
    <2>7. Active' = {}
      BY <2>6 DEF Active
    <2>8. BookInv' /\ RetireInv'
      BY <1>1, <2>6, <2>7 DEF IInv, BookInv, RetireInv, endVars
    <2>9. PlaceOK' /\ NumbersOK'
      BY <1>1, <2>4 DEF IInv, TypeOK, PlaceOK, Places, NumbersOK, prodVars
    <2>10. EndInv'
      BY <1>1, <2>4 DEF IInv, EndInv, devVars, endVars, prodVars, Cross
    <2> QED BY <2>6, <2>8, <2>9, <2>10 DEF IInv, TypeOK
  <1> QED BY <1>1, <1>2, <1>3


------------------------------------------------------------------------------
(* The invariant and what it gives.                                        *)

LEMMA InitIInv ==
  ASSUME Leftover = {}, Init
  PROVE  IInv
  <1>1. Active = {}
    BY DEF Init, Active, Idle
  <1>2. cq = <<>> /\ bell = {} /\ dev = {} /\ written = {} /\ pending = {} /\ inflight = 0
    BY DEF Init
  <1>3. PlaceOK
    BY WriterAssumption DEF Init, PlaceOK, Places
  <1>4. NumbersOK
    <2>1. next_cmd_id = 1 /\ inflight = 0 /\ rr = 0 /\ taken = 0 /\ ready = 0
      BY DEF Init
    <2> QED BY <2>1, Constants DEF NumbersOK, Index
  <1>5. TablesOK
    <2>1. Idle \in Contexts
      BY Constants DEF Idle, Contexts
    <2>2. ctx \in [Index -> Contexts]
      <3>1. ctx = [i \in Index |-> Idle]
        BY DEF Init
      <3> HIDE DEF Idle
      <3> QED BY <2>1, <3>1
    <2> QED BY <1>2, <2>2, FS_EmptySet, EmptySeq DEF TablesOK
  <1>6. HostInv
    <2>1. Len(cq) = 0
      BY <1>2
    <2>2. 1 .. Len(cq) = {}
      BY <2>1
    <2> QED BY <1>2, <2>2 DEF HostInv
  <1>7. ShapeInv /\ MediumInv
    BY <1>1, <1>2 DEF ShapeInv, MediumInv
  <1>8. BookInv
    <2>1. Booked(pending)
      BY <1>1, <1>2, FS_EmptySet, Constants DEF Booked
    <2> QED BY <2>1 DEF Init, BookInv
  <1>9. RetireInv /\ EndInv
    BY <1>1, <1>2 DEF Init, RetireInv, EndInv
  <1> QED BY <1>3, <1>4, <1>5, <1>6, <1>7, <1>8, <1>9 DEF IInv, TypeOK

LEMMA NextIInv ==
  ASSUME IInv, [Next]_vars
  PROVE  IInv'
  <1>1. CASE Beginning
    BY <1>1, BeginningStep
  <1>2. CASE Round
    BY <1>2, RoundStep
  <1>3. CASE Draining
    BY <1>3, DrainingStep
  <1>4. CASE Producing \/ UNCHANGED vars
    BY <1>4, ProducingStep
  <1>5. CASE Completing
    BY <1>5, CompletingStep
  <1>6. CASE TakeSlot
    BY <1>6, TakeSlotStep
  <1>7. CASE Submit
    BY <1>7, PostStep
  <1>8. CASE Accepted \/ AcceptanceUnknown
    BY <1>8, BellStep
  <1>9. CASE Retire
    BY <1>9, RetireStep
  <1>10. CASE DrainEnds
    BY <1>10, DrainEndsStep
  <1>11. CASE Device
    BY <1>11, DeviceStep
  <1> QED BY <1>1, <1>2, <1>3, <1>4, <1>5, <1>6, <1>7, <1>8, <1>9, <1>10, <1>11
          DEF Next, Writer, Beginning, Round, Draining, Producing, Completing

\* The inductive invariant holds on every path, for every instance.
THEOREM WriterInvariant ==
  ASSUME Leftover = {}
  PROVE  Spec => []IInv
  <1>1. Init => IInv
    BY InitIInv
  <1>2. IInv /\ [Next]_vars => IInv'
    BY NextIInv
  <1> QED BY <1>1, <1>2, PTL DEF Spec

LEMMA OwnershipFollows ==
  ASSUME IInv
  PROVE  OwnershipAgrees
  <1>1. HostOwned = pending
    <2>1. cq \in Seq(Entries) /\ DOMAIN cq = 1 .. Len(cq)
      BY DEF IInv, TypeOK, TablesOK
    <2>2. {c.cmd : c \in ToSet(cq)} = {cq[k].cmd : k \in 1 .. Len(cq)}
      BY <2>1 DEF ToSet
    <2>3. NoCmd \notin pending
      BY DEF IInv, TypeOK, TablesOK, Commands, Cids, NoCmd
    <2> QED BY <2>2, <2>3 DEF HostOwned, IInv, HostInv
  <1>2. \A p, q \in pending : p.cid = q.cid => p = q
    BY DEF IInv, HostInv
  <1>3. ASSUME Cross, pc \in {"head", "poll"}
        PROVE  cross_slot_validate
    <2>1. Booked(pending)
      BY <1>3 DEF IInv, BookInv
    <2>2. \A i \in Active : /\ ctx[i].next <= CmdsPerSlot
                            /\ ctx[i].next = ctx[i].completed + ctx[i].failed + ctx[i].inflight
                            /\ ctx[i].inflight = Cardinality(PendingOf(i))
      BY <2>1 DEF IInv, ShapeInv, Booked, PendingOf
    <2>3. \A p \in pending : /\ p.cid \notin seen
                             /\ \E i \in Active : ctx[i].slot = p.slot
                             /\ \A q \in pending : q.cid = p.cid => q = p
      BY <1>2, <1>3, <2>1 DEF Booked, CountedBy
    <2>4. inflight = Cardinality(pending)
      BY <2>1 DEF Booked
    <2> QED BY <2>2, <2>3, <2>4 DEF cross_slot_validate
  <1> QED BY <1>1, <1>2, <1>3 DEF OwnershipAgrees

\* The pending table and the Host Core agree about every command, no CID is used
\* twice at a time, and cross_slot_validate never fires.
THEOREM OwnershipAlwaysAgrees ==
  ASSUME Leftover = {}
  PROVE  Spec => []OwnershipAgrees
  <1>1. Spec => []IInv
    BY WriterInvariant
  <1>2. IInv => OwnershipAgrees
    BY OwnershipFollows
  <1> QED BY <1>1, <1>2, PTL

\* storage_queue_request_abort never works on a freed engine, whatever lies in the
\* completion queue at the start.
THEOREM AbortMeetsLiveEngine == Spec => []EngineOutlivesAbort
  <1>1. Init => EngineOutlivesAbort
    BY DEF Init, EngineOutlivesAbort
  <1>2. ASSUME EngineOutlivesAbort, [Next]_vars
        PROVE  EngineOutlivesAbort'
    <2>1. CASE Create
      BY <1>2, <2>1 DEF Create, EngineOutlivesAbort, Unlocked, prodVars
    <2>2. CASE Destroy
      BY <1>2, <2>2 DEF Destroy, EngineOutlivesAbort, Unlocked, prodVars
    <2>3. CASE AbortLoad
      BY <1>2, <2>3 DEF AbortLoad, EngineOutlivesAbort
    <2>4. CASE AbortStore
      BY <2>4 DEF AbortStore, EngineOutlivesAbort
    <2>5. CASE Push \/ Close
      BY <1>2, <2>5 DEF Push, Close, EngineOutlivesAbort
    <2>6. CASE Device \/ IdleRound \/ GiveUp
      BY <1>2, <2>6 DEF Device, IdleRound, GiveUp, EngineOutlivesAbort, prodVars
    <2>7. CASE SeeAbort \/ TakeSlot \/ GoOn \/ StepHead \/ Poll \/ PollEmpty \/ Retire
      BY <1>2, <2>7 DEF SeeAbort, TakeSlot, GoOn, StepHead, Poll, PollEmpty, Retire,
                        EngineOutlivesAbort, prodVars
    <2>8. CASE Submit \/ RefillEnds \/ Accepted \/ AcceptanceUnknown \/ BeginDrain \/ DrainCross
      BY <1>2, <2>8 DEF Submit, RefillEnds, Accepted, AcceptanceUnknown, BeginDrain, DrainCross,
                        EngineOutlivesAbort, prodVars
    <2>9. CASE DrainEnds \/ Settle \/ DrainSerial \/ DrainSerialEnds \/ FailFatal \/ End
      BY <1>2, <2>9 DEF DrainEnds, Settle, DrainSerial, DrainSerialEnds, FailFatal, End,
                        EngineOutlivesAbort, prodVars
    <2>10. CASE UNCHANGED vars
      BY <1>2, <2>10 DEF vars, prodVars, EngineOutlivesAbort
    <2> QED BY <1>2, <2>1, <2>2, <2>3, <2>4, <2>5, <2>6, <2>7, <2>8, <2>9, <2>10
            DEF Next, Writer, Ended
  <1> QED BY <1>1, <1>2, PTL DEF Spec


------------------------------------------------------------------------------
(* The refinement.                                                         *)

Held == {c.slot : c \in bell \cup dev}
Durable == {s \in Slots : \A k \in 1 .. CmdsPerSlot : <<s, k>> \in written}
Released == closed /\ ~Abandons

\* A slot with a written command has been taken.
LEMMA DurableIsTaken ==
  ASSUME NEW t, NEW medium \in SUBSET ((1 .. t) \X (1 .. CmdsPerSlot))
  PROVE  {s \in Slots : \A k \in 1 .. CmdsPerSlot : <<s, k>> \in medium} \subseteq 1 .. t
  <1> SUFFICES ASSUME NEW s \in Slots, \A k \in 1 .. CmdsPerSlot : <<s, k>> \in medium
               PROVE  s \in 1 .. t
    OBVIOUS
  <1>1. <<s, 1>> \in medium
    BY Constants
  <1> QED BY <1>1

\* A drained context is on the medium and out of the drive.
LEMMA DrainedIsDurable ==
  ASSUME IInv, pc # "bell", NEW i \in Drained
  PROVE  ctx[i].slot \in Durable \ Held
  <1>1. /\ i \in Active /\ ctx[i].next = CmdsPerSlot /\ ctx[i].inflight = 0 /\ ctx[i].failed = 0
    BY DEF Drained
  <1>2. \A p \in pending : p.slot # ctx[i].slot
    BY <1>1, NothingInFlight DEF IInv, TypeOK, BookInv
  <1>3. bell \cup dev \subseteq pending
    BY DEF IInv, HostInv
  <1>4. ctx[i].slot \in Slots
    BY <1>1, Constants DEF IInv, TypeOK, TablesOK, Contexts, Active, Slots
  <1>5. \A k \in 1 .. CmdsPerSlot : <<ctx[i].slot, k>> \in written
    BY <1>1, <1>2 DEF IInv, MediumInv, Placed
  <1> QED BY <1>2, <1>3, <1>4, <1>5 DEF Durable, Held

\* While the writer runs the mapping is there.
LEMMA NotReleased ==
  ASSUME IInv, pc # "done"
  PROVE  ~closed
  BY DEF IInv, EndInv

\* Every step of a submission path is a step of SlotWriter or a stutter.
LEMMA StepImplements ==
  ASSUME IInv, IInv', [Next]_vars
  PROVE  [SW!Next]_(SW!vars)
  <1> USE DEF SW!Next, SW!vars
  <1>1. ASSUME UNCHANGED <<written, retired, taken>>, bell' \cup dev' = bell \cup dev,
               UNCHANGED <<mode, why, closed>> \/ (~closed /\ ~closed')
        PROVE  UNCHANGED SW!vars
    BY <1>1 DEF Abandons, Cross
  <1>2. CASE Beginning
    <2>1. /\ UNCHANGED <<devVars, endVars, taken, closed>> /\ pc # "done"
      BY <1>2 DEF Beginning, Create, SeeAbort, GoOn, prodVars
    <2> QED BY <1>1, <2>1, NotReleased DEF devVars, endVars
  <1>3. CASE Round
    <2>1. /\ UNCHANGED <<devVars, endVars, taken, closed>> /\ pc # "done"
      BY <1>3 DEF Round, StepHead, IdleRound, GiveUp, PollEmpty, RefillEnds, prodVars
    <2> QED BY <1>1, <2>1, NotReleased DEF devVars, endVars
  <1>4. CASE Draining
    <2>1. /\ UNCHANGED <<devVars, retired, taken, closed>> /\ pc # "done"
      BY <1>4 DEF Draining, BeginDrain, Settle, DrainSerialEnds, FailFatal, End, Destroy,
                  endVars, prodVars
    <2> QED BY <1>1, <2>1, NotReleased DEF devVars
  <1>5. CASE Completing
    <2>1. /\ UNCHANGED <<bell, dev, written, retired, taken, closed>> /\ pc # "done"
      BY <1>5 DEF Completing, Poll, DrainCross, DrainSerial, PopCq, endVars, prodVars
    <2> QED BY <1>1, <2>1, NotReleased
  <1>6. CASE Accepted \/ AcceptanceUnknown \/ DrainEnds
    <2>1. /\ UNCHANGED <<devVars, endVars, taken, closed>> /\ pc # "done"
      BY <1>6 DEF Accepted, AcceptanceUnknown, DrainEnds, prodVars
    <2> QED BY <1>1, <2>1, NotReleased DEF devVars, endVars
  <1>7. CASE Push \/ AbortLoad \/ AbortStore \/ UNCHANGED vars
    <2>1. UNCHANGED <<devVars, endVars, taken, mode, why, closed>>
      BY <1>7 DEF Push, AbortLoad, AbortStore, vars, prodVars
    <2> QED BY <1>1, <2>1 DEF devVars, endVars
  <1>8. CASE Device
    <2>1. UNCHANGED <<mode, why, endVars, taken, closed, pending, ctx>>
      BY <1>8 DEF Device, bookVars, prodVars
    <2>2. CASE HostAccept
      BY <1>1, <2>1, <2>2 DEF HostAccept, endVars
    <2>3. CASE HostComplete
      <3>1. bell' = bell /\ dev' \subseteq dev /\ written \subseteq written'
        BY <2>1, <2>3, CompleteStep DEF IInv, TypeOK
      <3>2. Held' \subseteq Held /\ Durable \subseteq Durable' /\ Durable' \subseteq 1 .. taken'
        <4>1. Durable' \subseteq 1 .. taken'
          <5>1. written' \in SUBSET ((1 .. taken') \X (1 .. CmdsPerSlot))
            BY DEF IInv, MediumInv
          <5> QED BY <5>1, DurableIsTaken DEF Durable
        <4> QED BY <3>1, <4>1 DEF Held, Durable
      <3>3. UNCHANGED <<taken, retired>> /\ Released' = Released
        BY <2>1 DEF endVars, Released, Abandons, Cross
      <3>4. SW!Finish
        BY <2>1, <3>2, <3>3 DEF SW!Finish, Held, Durable, Released
      <3> QED BY <3>4
    <2> QED BY <1>8, <2>2, <2>3 DEF Device
  <1>9. CASE TakeSlot
    <2>1. /\ UNCHANGED <<devVars, endVars, closed>> /\ pc # "done" /\ taken' = taken + 1
      BY <1>9 DEF TakeSlot, prodVars
    <2>2. /\ taken + 1 \in Slots \ (1 .. taken) /\ 1 .. taken' = (1 .. taken) \cup {taken + 1}
      BY <2>1, Constants DEF IInv, TypeOK, NumbersOK, Slots
    <2>3. ~closed
      BY <2>1, NotReleased
    <2>4. Held' = Held /\ Durable' = Durable /\ retired' = retired /\ Released' = Released
      BY <2>1, <2>3 DEF devVars, endVars, Held, Durable, Released
    <2>5. SW!Take
      BY <2>2, <2>3, <2>4 DEF SW!Take, Held, Durable, Released
    <2> QED BY <2>5
  <1>10. CASE Submit
    <2> DEFINE cmd == [cid |-> CidAfter(CidSkips), slot |-> ctx[NextContext].slot,
                       idx |-> ctx[NextContext].next + 1]
    <2>1. /\ UNCHANGED <<dev, written, endVars, taken, closed>> /\ pc = "refill" /\ CanSubmit
          /\ bell' = {cmd}
      BY <1>10 DEF Submit, prodVars
    <2>2. bell = {} /\ ~closed
      BY <2>1, NotReleased DEF IInv, EndInv
    <2>3. NextContext \in Active
      BY <2>1, NextContextHasWork DEF IInv, TypeOK, CanSubmit
    <2>4. cmd.slot = ctx[NextContext].slot
      OBVIOUS
    <2> HIDE DEF cmd
    <2>5. cmd.slot \in 1 .. taken /\ cmd.slot \notin retired
      <3>1. ctx[NextContext].slot \in Nat \ {0} /\ ctx[NextContext].slot <= taken
        BY <2>3 DEF IInv, TypeOK, TablesOK, Contexts, Active, ShapeInv
      <3>2. taken \in Nat
        BY DEF IInv, TypeOK, NumbersOK
      <3>3. ctx[NextContext].slot \notin retired
        BY <2>1, <2>3 DEF IInv, RetireInv
      <3> QED BY <2>4, <3>1, <3>2, <3>3
    <2>6. Held' = Held \cup {cmd.slot} /\ Durable' = Durable /\ Released' = Released
      BY <2>1, <2>2 DEF Held, Durable, Released
    <2>7. SW!Hand
      BY <2>1, <2>2, <2>5, <2>6 DEF SW!Hand, Held, Durable, Released, endVars
    <2> QED BY <2>7
  <1>11. CASE Retire
    <2>1. /\ UNCHANGED <<devVars, taken, closed>> /\ pc = "retire"
          /\ \E R \in SUBSET Drained : retired' = retired \cup {ctx[i].slot : i \in R}
      BY <1>11 DEF Retire, prodVars
    <2>2. PICK R \in SUBSET Drained : retired' = retired \cup {ctx[i].slot : i \in R}
      BY <2>1
    <2>3. ~closed
      BY <2>1, NotReleased
    <2>4. \A i \in Drained : ctx[i].slot \in (Durable \ Held) \ retired
      <3>1. \A i \in Drained : ctx[i].slot \in Durable \ Held
        BY <2>1, DrainedIsDurable
      <3>2. \A i \in Drained : ctx[i].slot \notin retired
        BY <2>1 DEF IInv, RetireInv, Drained
      <3> QED BY <3>1, <3>2
    <2>5. Held' = Held /\ Durable' = Durable /\ Released' = Released /\ taken' = taken
      BY <2>1, <2>3 DEF devVars, Held, Durable, Released
    <2>6. {ctx[i].slot : i \in R} \in SUBSET ((Durable \ Held) \ retired)
      BY <2>4
    <2>7. SW!Retire
      BY <2>2, <2>3, <2>5, <2>6 DEF SW!Retire, Held, Durable, Released
    <2> QED BY <2>7
  <1>12. CASE Close
    <2>1. /\ UNCHANGED <<mode, why, devVars, endVars, taken>> /\ pc = "done" /\ ~joined
          /\ closed' = (quiesced /\ ~unresolved)
      BY <1>12 DEF Close
    <2>2. ~closed
      BY <2>1 DEF IInv, EndInv
    <2>3. CASE ~Released'
      BY <2>1, <2>2, <2>3 DEF Released, devVars, endVars
    <2>4. CASE Released'
      <3>1. quiesced /\ ~unresolved /\ ~Abandons
        BY <2>1, <2>4 DEF Released, Abandons, Cross
      <3>2. pending = {}
        BY <2>1, <3>1 DEF IInv, EndInv
      <3>3. Held = {}
        BY <3>2 DEF Held, IInv, HostInv
      <3>4. Held' = Held /\ Durable' = Durable /\ UNCHANGED <<taken, retired>>
        BY <2>1 DEF devVars, endVars, Held, Durable
      <3>5. SW!Release
        BY <2>2, <2>4, <3>3, <3>4 DEF SW!Release, Held, Durable, Released
      <3> QED BY <3>5
    <2> QED BY <2>3, <2>4
  <1> QED BY <1>2, <1>3, <1>4, <1>5, <1>6, <1>7, <1>8, <1>9, <1>10, <1>11, <1>12
          DEF Next, Writer, Beginning, Round, Draining, Completing, Ended

\* Every submission path implements SlotWriter: a slot comes back only when all of
\* it is on the medium and the drive has let go of it, and the mapping goes only
\* when the drive holds nothing.
THEOREM WriterImplements ==
  ASSUME Leftover = {}
  PROVE  Spec => ImplementsSlotWriter
  <1>1. Spec => []IInv
    BY WriterInvariant
  <1>2. Init => SW!Init
    <2> SUFFICES ASSUME Init PROVE SW!Init
      OBVIOUS
    <2>1. written = {} /\ bell = {} /\ dev = {} /\ taken = 0 /\ retired = {} /\ closed = FALSE
      BY DEF Init
    <2>2. 1 \in 1 .. CmdsPerSlot
      BY Constants
    <2>3. Durable = {}
      BY <2>1, <2>2 DEF Durable
    <2>4. 1 .. taken = {}
      BY <2>1
    <2>5. Held = {} /\ Released = FALSE
      BY <2>1 DEF Held, Released
    <2> QED BY <2>1, <2>3, <2>4, <2>5 DEF SW!Init, Durable, Held, Released
  <1>3. IInv /\ IInv' /\ [Next]_vars => [SW!Next]_(SW!vars)
    BY StepImplements
  <1> QED BY <1>1, <1>2, <1>3, PTL DEF Spec, ImplementsSlotWriter, SW!Spec
=============================================================================
