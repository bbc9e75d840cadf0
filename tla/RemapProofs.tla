---------------------------- MODULE RemapProofs ----------------------------
(***************************************************************************)
(* remap_page implements the abstract address space, for tables of every   *)
(* size and every firmware; and what the loop finds when efi_main enters   *)
(* user mode: the two pages of user code as they must be, no other page    *)
(* open to user code, and no reserved bit on the way.                      *)
(***************************************************************************)
EXTENDS BootProofs

(* An entry covers the pages of Fanout entries of the next level.          *)
LEMMA SpanProperties ==
  /\ Span(PT) = 1
  /\ \A l \in Level : Span(l) \in Nat \ {0}
  /\ \A l \in Level \ {PT} : Span(l) = Fanout * Span(l + 1)
<1> USE DEF Level, PML5, PML4, PDPT, PD, PT, Span
<1>1. Fanout \in Nat \ {0}
  BY RemapAssumption
<1>2. DEFINE F2 == Fanout * Fanout
             F3 == Fanout * Fanout * Fanout
             F4 == Fanout * Fanout * Fanout * Fanout
<1>3. F2 \in Nat \ {0} /\ F3 \in Nat \ {0} /\ F4 \in Nat \ {0}
  <2>1. F2 \in Nat \ {0}
    BY <1>1
  <2>2. F3 = F2 * Fanout /\ F4 = F3 * Fanout
    BY <1>1
  <2>3. F3 \in Nat \ {0}
    BY <1>1, <2>1, <2>2
  <2> QED
    BY <1>1, <2>1, <2>2, <2>3
<1>4. F3 = Fanout * F2 /\ F4 = Fanout * F3
  BY <1>1
<1> HIDE DEF F2, F3, F4
<1>5. Span(0) = F4 /\ Span(1) = F3 /\ Span(2) = F2 /\ Span(3) = Fanout /\ Span(4) = 1
  BY DEF F2, F3, F4
<1> QED
  BY <1>1, <1>3, <1>4, <1>5

LEMMA PageIsNat == \A p \in Page : p \in Nat /\ p < Span(PML5)
BY SpanProperties DEF Page, Level, PML5, PT

LEMMA Division ==
  ASSUME NEW n \in Nat, NEW d \in Nat \ {0}
  PROVE  /\ n \div d \in Nat /\ n % d \in 0 .. d - 1
         /\ n = d * (n \div d) + (n % d)
OBVIOUS

(* The index of the next level continues the index of this one, and what   *)
(* is left of the address splits in the same way.                          *)
LEMMA NextIndex ==
  ASSUME NEW p \in Page, NEW l \in Level \ {PT}
  PROVE  /\ PtIndex(p, l) \in Nat /\ PtIndex(p, l + 1) \in Nat
         /\ PtIndex(p, l) = PtIndex(p, l + 1) \div Fanout
         /\ p % Span(l)
              = Span(l + 1) * (PtIndex(p, l + 1) % Fanout) + (p % Span(l + 1))
<1> DEFINE a == Span(l)
           b == Span(l + 1)
           n == p \div b
<1>1. p \in Nat /\ Fanout \in Nat \ {0} /\ a \in Nat \ {0} /\ b \in Nat \ {0} /\ a = Fanout * b
  BY PageIsNat, SpanProperties, RemapAssumption DEF Level, PML5, PT
<1> HIDE DEF a, b
<1>2. n \in Nat /\ p = b * n + (p % b) /\ p % b \in 0 .. b - 1
  BY <1>1, Division
<1>3. n % Fanout \in 0 .. Fanout - 1 /\ n \div Fanout \in Nat
      /\ n = Fanout * (n \div Fanout) + (n % Fanout)
  BY <1>1, <1>2, Division
<1>4. p \div a = n \div Fanout
  BY <1>1
<1>5. p = a * (n \div Fanout) + (p % a) /\ p % a \in Nat
  <2>1. p = a * (p \div a) + (p % a) /\ p % a \in 0 .. a - 1
    BY <1>1, Division
  <2>2. p = a * (n \div Fanout) + (p % a)
    BY <1>4, <2>1
  <2> QED
    BY <1>1, <2>1, <2>2
<1>6. p % a = b * (n % Fanout) + (p % b)
  <2> DEFINE u == n \div Fanout
             v == n % Fanout
  <2>1. u \in Nat /\ v \in Nat /\ p % b \in Nat
    BY <1>1, <1>2, <1>3
  <2>2. n = Fanout * u + v /\ p = b * n + (p % b) /\ p = a * u + (p % a)
    BY <1>2, <1>3, <1>5
  <2> HIDE DEF n, u, v
  <2>3. b * n = a * u + b * v
    <3>1. b * n = b * (Fanout * u) + b * v
      BY <1>1, <2>1, <2>2
    <3>2. a * u = b * (Fanout * u)
      BY <1>1, <2>1
    <3> QED
      BY <3>1, <3>2
  <2> DEFINE x == a * u
             y == b * v
  <2>4. x \in Int /\ y \in Int
    BY <1>1, <2>1
  <2>5. p = x + y + (p % b) /\ p = x + (p % a)
    BY <2>2, <2>3
  <2> HIDE DEF x, y
  <2>6. p % a = y + (p % b)
    <3> DEFINE r == p % a
               t == p % b
    <3>1. r \in Int /\ t \in Int /\ p = x + y + t /\ p = x + r
      BY <1>5, <2>1, <2>5
    <3> HIDE DEF r, t
    <3>2. r = y + t
      BY <2>4, <3>1
    <3> QED
      BY <3>2 DEF r, t
  <2> QED
    BY <2>6 DEF y, v
<1> QED
  <2>1. PtIndex(p, l) = n \div Fanout /\ PtIndex(p, l + 1) = n
    BY <1>4 DEF PtIndex, a, b
  <2>2. p % Span(l) = Span(l + 1) * (n % Fanout) + (p % Span(l + 1))
    BY <1>6 DEF a, b
  <2>3. PtIndex(p, l) \in Nat /\ PtIndex(p, l + 1) \in Nat
    BY <1>2, <1>3, <2>1, Zenon
  <2>4. PtIndex(p, l) = PtIndex(p, l + 1) \div Fanout
    BY <2>1, Zenon
  <2>5. p % Span(l) = Span(l + 1) * (PtIndex(p, l + 1) % Fanout) + (p % Span(l + 1))
    BY <2>1, <2>2, Zenon
  <2> QED
    BY <2>3, <2>4, <2>5, Zenon

LEMMA LastIndex == \A p \in Page : PtIndex(p, PT) = p
<1> SUFFICES ASSUME NEW p \in Page PROVE PtIndex(p, PT) = p
  OBVIOUS
<1>1. p \in Nat /\ Span(PT) = 1
  BY PageIsNat, SpanProperties
<1> QED
  BY <1>1 DEF PtIndex

(* Pages that share an entry share those above it.                         *)
LEMMA SharedAbove ==
  ASSUME NEW p \in Page, NEW q \in Page, NEW l \in Level, PtIndex(p, l) = PtIndex(q, l)
  PROVE  \A m \in Level : m <= l => PtIndex(p, m) = PtIndex(q, m)
<1>1. \A k \in Level \ {PT} :
        PtIndex(p, k + 1) = PtIndex(q, k + 1) => PtIndex(p, k) = PtIndex(q, k)
  BY NextIndex
<1> QED
  BY <1>1 DEF Level, PML5, PT

----------------------------------------------------------------------------
(* The walk of a page ends at level k.                                     *)
EndsAt(p, k) ==
  /\ k \in Root .. PT
  /\ \A l \in Root .. k - 1 : ~EntryOf(p, l).size
  /\ EntryOf(p, k).size \/ k = PT

LEMMA RootIsLevel == Root \in {PML5, PML4}
BY DEF Root

LEMMA WalkEnds == \A p \in Page : \E k \in Level : EndsAt(p, k)
<1> SUFFICES ASSUME NEW p \in Page PROVE \E k \in Level : EndsAt(p, k)
  OBVIOUS
<1> USE RootIsLevel DEF Level, PML5, PML4, PDPT, PD, PT
<1> DEFINE S(l) == EntryOf(p, l).size
<1>1. \E k \in Root .. 4 : (\A l \in Root .. k - 1 : ~S(l)) /\ (S(k) \/ k = 4)
  <2> HIDE DEF S
  <2>1. CASE Root = 0
    BY <2>1
  <2>2. CASE Root = 1
    BY <2>2
  <2> QED
    BY <2>1, <2>2
<1> QED
  BY <1>1 DEF EndsAt

LEMMA WalkEndsNext == \A p \in Page : \E k \in Level : EndsAt(p, k)'
<1>1. (\A p \in Page : \E k \in Level : EndsAt(p, k))'
  BY WalkEnds, PTL
<1> QED
  BY <1>1

LEMMA WalkPath ==
  ASSUME NEW p \in Page, NEW k \in Level, EndsAt(p, k)
  PROVE  Path(p) = Root .. k /\ Leaf(p) = k
<1> USE RootIsLevel DEF Level, PML5, PML4, PDPT, PD, PT
<1>1. Path(p) = Root .. k
  BY DEF Path, EndsAt
<1>2. k \in Path(p) /\ \A m \in Path(p) : m <= k
  BY <1>1 DEF EndsAt
<1>3. \A n \in Path(p) : (\A m \in Path(p) : m <= n) => n = k
  BY <1>1, <1>2
<1> QED
  BY <1>1, <1>2, <1>3 DEF Leaf

(* The CPU's walk by the levels it passes.                                 *)
WalkTo(p, k) ==
  IF \E l \in Root .. k : ~EntryOf(p, l).present THEN Unmapped
  ELSE [frame      |-> EntryOf(p, k).frame + (p % Span(k)),
        writable   |-> \A l \in Root .. k : EntryOf(p, l).writable,
        user       |-> \A l \in Root .. k : EntryOf(p, l).user,
        executable |-> \A l \in Root .. k : ~EntryOf(p, l).nx]

LEMMA WalkTranslates ==
  \A p \in Page, k \in Level : EndsAt(p, k) => Translate(p) = WalkTo(p, k)
BY WalkPath, Zenon DEF Translate, WalkTo

LEMMA WalkTranslatesNext ==
  \A p \in Page, k \in Level : EndsAt(p, k)' => Translate(p)' = WalkTo(p, k)'
<1>1. (\A p \in Page, k \in Level : EndsAt(p, k) => Translate(p) = WalkTo(p, k))'
  BY WalkTranslates, PTL
<1> QED
  BY <1>1

----------------------------------------------------------------------------
(* What the steps do to the entries on the walk of a page.                 *)
Typed ==
  /\ entry \in [Slot -> Entry] /\ la57 \in BOOLEAN /\ i \in Level
  /\ request \in Request \cup {NoRequest}
  /\ request = NoRequest <=> remap_pc = "idle"

LEMMA SlotOf == \A p \in Page, l \in Level : <<l, PtIndex(p, l)>> \in Slot
BY DEF Slot

LEMMA RequestParts ==
  ASSUME Typed, remap_pc # "idle"
  PROVE  /\ request \in Request /\ request # NoRequest
         /\ request.page \in Page /\ request.frame \in Page /\ request.prot \subseteq Prot
BY DEF Typed, Request

SameTable(p) == PtIndex(p, i) = PtIndex(request.page, i)

LinkedEntry ==
  [present |-> TRUE, size |-> FALSE, frame |-> 0, writable |-> TRUE, user |-> TRUE,
   nx |-> FALSE]

LEMMA LinkEntries ==
  ASSUME Typed, LinkTable, NEW p \in Page, NEW n \in Level, n = i
  PROVE  /\ Root' = Root /\ n # PT
         /\ \A l \in Level : ~SameTable(p) \/ l \notin {n, n + 1} =>
              EntryOf(p, l)' = EntryOf(p, l)
         /\ SameTable(p) =>
              /\ EntryOf(p, n)' = LinkedEntry
              /\ EntryOf(p, n + 1)' = ChildEntry(EntryOf(p, n), PtIndex(p, n + 1) % Fanout)
              /\ ~EntryOf(p, n).present \/ EntryOf(p, n).size
<1> DEFINE q == request.page
<1>1. n \in Level \ {PT} /\ n + 1 \in Level /\ n # n + 1 /\ q \in Page
  BY RequestParts DEF LinkTable, Typed, Level, PML5, PT
<1>2. \A s \in Slot : entry'[s] =
        IF s = <<n, PtIndex(q, n)>> THEN LinkedEntry
        ELSE IF s[1] = n + 1 /\ s[2] \div Fanout = PtIndex(q, n)
        THEN ChildEntry(CurPte, s[2] % Fanout) ELSE entry[s]
  BY DEF LinkTable, LinkedEntry
<1>3. \A l \in Level : EntryOf(p, l)' =
        IF l = n /\ PtIndex(p, l) = PtIndex(q, n) THEN LinkedEntry
        ELSE IF l = n + 1 /\ PtIndex(p, l) \div Fanout = PtIndex(q, n)
        THEN ChildEntry(CurPte, PtIndex(p, l) % Fanout) ELSE EntryOf(p, l)
  <2> TAKE l \in Level
  <2> DEFINE s == <<l, PtIndex(p, l)>>
  <2>1. s \in Slot /\ s[1] = l /\ s[2] = PtIndex(p, l)
        /\ EntryOf(p, l) = entry[s] /\ EntryOf(p, l)' = entry'[s]
    BY SlotOf DEF EntryOf
  <2>2. s = <<n, PtIndex(q, n)>> <=> l = n /\ PtIndex(p, l) = PtIndex(q, n)
    OBVIOUS
  <2> HIDE DEF s
  <2> QED
    BY <1>2, <2>1, <2>2
<1>4. PtIndex(p, n + 1) \div Fanout = PtIndex(p, n)
  BY <1>1, NextIndex
<1>5. Root' = Root
  BY DEF Root, LinkTable
<1>6. SameTable(p) => PtIndex(p, n) = PtIndex(q, n) /\ CurPte = EntryOf(p, n)
  BY DEF SameTable, CurPte, EntryOf
<1>7. ~SameTable(p) => PtIndex(p, n) # PtIndex(q, n)
  BY DEF SameTable
<1>8. \A l \in Level : ~SameTable(p) \/ l \notin {n, n + 1} =>
              EntryOf(p, l)' = EntryOf(p, l)
  BY <1>3, <1>4, <1>7, Zenon
<1>9. ASSUME SameTable(p)
      PROVE  /\ EntryOf(p, n)' = LinkedEntry
             /\ EntryOf(p, n + 1)' = ChildEntry(EntryOf(p, n), PtIndex(p, n + 1) % Fanout)
             /\ ~EntryOf(p, n).present \/ EntryOf(p, n).size
  <2>1. PtIndex(p, n) = PtIndex(q, n) /\ CurPte = EntryOf(p, n)
    BY <1>6, <1>9
  <2>2. EntryOf(p, n)' = LinkedEntry
    BY <1>1, <1>3, <2>1
  <2>3. EntryOf(p, n + 1)' = ChildEntry(EntryOf(p, n), PtIndex(p, n + 1) % Fanout)
    BY <1>1, <1>3, <1>4, <2>1
  <2>4. ~EntryOf(p, n).present \/ EntryOf(p, n).size
    BY <2>1 DEF LinkTable, NeedsTable
  <2> QED
    BY <2>2, <2>3, <2>4
<1> QED
  BY <1>1, <1>5, <1>8, <1>9, Zenon

(* The parts of a translation.                                             *)
LEMMA WalkType ==
  ASSUME Typed, NEW p \in Page, NEW k \in Level, EndsAt(p, k)
  PROVE  /\ WalkTo(p, k) = Unmapped <=> \E l \in Root .. k : ~EntryOf(p, l).present
         /\ EntryOf(p, k).frame + (p % Span(k)) \in Nat
<1>1. <<k, PtIndex(p, k)>> \in Slot
  BY SlotOf
<1>2. EntryOf(p, k).frame \in Page
  BY <1>1 DEF Typed, Entry, EntryOf
<1>3. EntryOf(p, k).frame \in Nat /\ p \in Nat /\ Span(k) \in Nat \ {0}
  BY <1>2, PageIsNat, SpanProperties
<1>4. EntryOf(p, k).frame + (p % Span(k)) \in Nat
  <2> DEFINE f == EntryOf(p, k).frame
             r == p % Span(k)
  <2>1. f \in Nat /\ r \in Nat
    BY <1>3, Division
  <2> HIDE DEF f, r
  <2>2. f + r \in Nat
    BY <2>1
  <2> QED
    BY <2>2 DEF f, r
<1>5. [frame      |-> EntryOf(p, k).frame + (p % Span(k)),
       writable   |-> \A l \in Root .. k : EntryOf(p, l).writable,
       user       |-> \A l \in Root .. k : EntryOf(p, l).user,
       executable |-> \A l \in Root .. k : ~EntryOf(p, l).nx] \in Translation
  <2> DEFINE f == EntryOf(p, k).frame + (p % Span(k))
             w == \A l \in Root .. k : EntryOf(p, l).writable
             u == \A l \in Root .. k : EntryOf(p, l).user
             x == \A l \in Root .. k : ~EntryOf(p, l).nx
  <2>1. f \in Nat /\ w \in BOOLEAN /\ u \in BOOLEAN /\ x \in BOOLEAN
    BY <1>4
  <2> HIDE DEF f, w, u, x
  <2>2. [frame |-> f, writable |-> w, user |-> u, executable |-> x] \in Translation
    BY <2>1 DEF Translation
  <2> QED
    BY <2>2 DEF f, w, u, x
<1>6. WalkTo(p, k) = Unmapped <=> \E l \in Root .. k : ~EntryOf(p, l).present
  BY <1>5, AbsenceAssumption, Zenon DEF WalkTo
<1> QED
  BY <1>4, <1>6

WalkParts(p, k) ==
  /\ Translate(p) = Unmapped <=> \E l \in Root .. k : ~EntryOf(p, l).present
  /\ Translate(p) # Unmapped =>
       /\ Translate(p).frame = EntryOf(p, k).frame + (p % Span(k))
       /\ Translate(p).writable <=> \A l \in Root .. k : EntryOf(p, l).writable
       /\ Translate(p).user <=> \A l \in Root .. k : EntryOf(p, l).user
       /\ Translate(p).executable <=> \A l \in Root .. k : ~EntryOf(p, l).nx

LEMMA WalkHasParts ==
  Typed => \A p \in Page, k \in Level : EndsAt(p, k) => WalkParts(p, k)
<1> SUFFICES ASSUME Typed, NEW p \in Page, NEW k \in Level, EndsAt(p, k)
             PROVE  WalkParts(p, k)
  OBVIOUS
<1>1. Translate(p) = WalkTo(p, k)
  BY WalkTranslates
<1>2. Translate(p) = Unmapped <=> \E l \in Root .. k : ~EntryOf(p, l).present
  BY <1>1, WalkType
<1>3. ASSUME Translate(p) # Unmapped
      PROVE  /\ Translate(p).frame = EntryOf(p, k).frame + (p % Span(k))
             /\ Translate(p).writable <=> \A l \in Root .. k : EntryOf(p, l).writable
             /\ Translate(p).user <=> \A l \in Root .. k : EntryOf(p, l).user
             /\ Translate(p).executable <=> \A l \in Root .. k : ~EntryOf(p, l).nx
  <2> DEFINE f == EntryOf(p, k).frame + (p % Span(k))
             w == \A l \in Root .. k : EntryOf(p, l).writable
             u == \A l \in Root .. k : EntryOf(p, l).user
             x == \A l \in Root .. k : ~EntryOf(p, l).nx
  <2>1. Translate(p) = [frame |-> f, writable |-> w, user |-> u, executable |-> x]
    BY <1>1, <1>2, <1>3, Zenon DEF WalkTo
  <2> HIDE DEF f, w, u, x
  <2>2. /\ Translate(p).frame = f /\ Translate(p).writable = w
        /\ Translate(p).user = u /\ Translate(p).executable = x
    BY <2>1
  <2>3. /\ Translate(p).writable <=> w
        /\ Translate(p).user <=> u
        /\ Translate(p).executable <=> x
    BY <2>2, Zenon
  <2> QED
    BY <2>2, <2>3, Zenon DEF f, w, u, x
<1> QED
  BY <1>2, <1>3, Zenon DEF WalkParts

LEMMA WalkHasPartsNext ==
  Typed' => \A p \in Page, k \in Level : EndsAt(p, k)' => WalkParts(p, k)'
<1>1. (Typed => \A p \in Page, k \in Level : EndsAt(p, k) => WalkParts(p, k))'
  BY WalkHasParts, PTL
<1> QED
  BY <1>1

(* A walk that ends after a step in the frame it ended in before, with no  *)
(* right lost on the way, gives at least what it gave.                     *)
LEMMA WalkGains ==
  ASSUME Typed, Typed', NEW p \in Page, NEW k \in Level, NEW m \in Level,
         EndsAt(p, k), EndsAt(p, m)',
         (\A l \in Root .. k : EntryOf(p, l).present)
           <=> (\A l \in Root' .. m : EntryOf(p, l)'.present),
         EntryOf(p, m)'.frame + (p % Span(m)) = EntryOf(p, k).frame + (p % Span(k)),
         (\A l \in Root .. k : EntryOf(p, l).writable)
           => (\A l \in Root' .. m : EntryOf(p, l)'.writable),
         (\A l \in Root .. k : EntryOf(p, l).user)
           => (\A l \in Root' .. m : EntryOf(p, l)'.user),
         (\A l \in Root .. k : ~EntryOf(p, l).nx)
           => (\A l \in Root' .. m : ~EntryOf(p, l)'.nx)
  PROVE  Space!AtLeast(Translate(p), Translate(p)')
<1>1. WalkParts(p, k) /\ WalkParts(p, m)'
  BY WalkHasParts, WalkHasPartsNext
<1>2. Translate(p) = Unmapped <=> Translate(p)' = Unmapped
  BY <1>1, Zenon DEF WalkParts
<1>3. CASE Translate(p) = Unmapped
  BY <1>2, <1>3, Zenon DEF Space!AtLeast
<1>4. CASE Translate(p) # Unmapped
  <2>1. Translate(p)'.frame = Translate(p).frame
    BY <1>1, <1>2, <1>4, Zenon DEF WalkParts
  <2>2. Translate(p).writable => Translate(p)'.writable
    BY <1>1, <1>2, <1>4, Zenon DEF WalkParts
  <2>3. Translate(p).user => Translate(p)'.user
    BY <1>1, <1>2, <1>4, Zenon DEF WalkParts
  <2>4. Translate(p).executable => Translate(p)'.executable
    BY <1>1, <1>2, <1>4, Zenon DEF WalkParts
  <2> QED
    BY <1>2, <1>4, <2>1, <2>2, <2>3, <2>4, Zenon DEF Space!AtLeast
<1> QED
  BY <1>3, <1>4

----------------------------------------------------------------------------
(* The tables and the walk of remap_page.                                  *)

(* A large page maps its own address.                                      *)
IdentityMap ==
  \A s \in Slot : entry[s].size => entry[s].frame = s[2] * Span(s[1])

(* No entry above the last level withholds execution from user code that   *)
(* it lets in, so none has to be executable and is not widened.            *)
UserRuns ==
  \A s \in Slot : s[1] # PT /\ entry[s].user => ~entry[s].nx

RunsAsUser ==
  remap_pc # "idle" => ("PROT_EXEC" \in request.prot => "PROT_USER" \in request.prot)

(* The levels the walk has left lead on and withhold nothing.              *)
Passes(e, rights) ==
  /\ e.present /\ ~e.size
  /\ rights.writable => e.writable
  /\ rights.user => e.user
  /\ ~rights.nx => ~e.nx

LeadsOn(e) == Passes(e, PteProt)

WalkInv ==
  remap_pc = "walk" =>
    /\ i >= Root
    /\ \A l \in Level : Root <= l /\ l < i => LeadsOn(EntryOf(request.page, l))

LEMMA SlotParts ==
  \A s \in Slot : /\ s[1] \in Level /\ s[2] \in Nat /\ s = <<s[1], s[2]>>
                  /\ s[2] * Span(s[1]) \in Page
<1> SUFFICES ASSUME NEW s \in Slot
             PROVE  /\ s[1] \in Level /\ s[2] \in Nat /\ s = <<s[1], s[2]>>
                    /\ s[2] * Span(s[1]) \in Page
  OBVIOUS
<1>1. PICK l \in Level, p \in Page : s = <<l, PtIndex(p, l)>>
  BY DEF Slot
<1> DEFINE d == Span(l)
           n == p \div d
<1>2. p \in Nat /\ p < Span(PML5) /\ d \in Nat \ {0} /\ Span(PML5) \in Nat
  BY PageIsNat, SpanProperties DEF Level, PML5, PT
<1>3. n \in Nat /\ n * d \in Nat /\ n * d <= p
  <2> HIDE DEF d
  <2>1. n \in Nat /\ p % d \in 0 .. d - 1 /\ p = d * n + (p % d)
    BY <1>2, Division
  <2> DEFINE r == p % d
             y == d * n
  <2>2. r \in Nat /\ y \in Nat /\ p = y + r
    BY <1>2, <2>1
  <2>3. y = n * d
    BY <1>2, <2>1
  <2> HIDE DEF r, y
  <2>4. y <= p
    BY <1>2, <2>2
  <2> QED
    BY <2>1, <2>2, <2>3, <2>4, Zenon
<1>4. s[1] = l /\ s[2] = n
  BY <1>1 DEF PtIndex
<1> HIDE DEF n, d
<1>5. n * d \in Page
  <2> DEFINE y == n * d
  <2>1. y \in Nat /\ y <= p
    BY <1>3
  <2> HIDE DEF y
  <2>2. y \in Page
    BY <1>2, <2>1 DEF Page
  <2> QED
    BY <2>2 DEF y
<1> QED
  <2>1. s = <<s[1], s[2]>>
    BY <1>1
  <2>2. s[2] * Span(s[1]) = n * d
    BY <1>4 DEF d
  <2> QED
    BY <1>3, <1>4, <1>5, <2>1, <2>2, Zenon

(* A page of the large page that is split has its own address again.       *)
LEMMA ChildFrame ==
  ASSUME NEW n \in Level \ {PT}, NEW m \in Nat
  PROVE  (m \div Fanout) * Span(n) + Span(n + 1) * (m % Fanout) = m * Span(n + 1)
<1> DEFINE a == Span(n)
           b == Span(n + 1)
           u == m \div Fanout
           v == m % Fanout
<1>1. a = Fanout * b /\ a \in Nat /\ b \in Nat /\ Fanout \in Nat \ {0}
  BY SpanProperties, RemapAssumption DEF Level, PML5, PT
<1>2. u \in Nat /\ v \in Nat /\ m = Fanout * u + v
  <2>1. u \in Nat /\ v \in 0 .. Fanout - 1 /\ m = Fanout * u + v
    BY <1>1, Division, Zenon
  <2> HIDE DEF u, v
  <2> QED
    BY <1>1, <2>1
<1> HIDE DEF a, b, u, v
<1>3. u * a = (Fanout * u) * b
  BY <1>1, <1>2
<1>4. m * b = (Fanout * u) * b + b * v
  <2> DEFINE x == Fanout * u
  <2>1. x \in Nat /\ m = x + v
    BY <1>1, <1>2
  <2> HIDE DEF x
  <2>2. m * b = x * b + b * v
    BY <1>1, <1>2, <2>1
  <2> QED
    BY <2>2 DEF x
<1>5. u * a + b * v = m * b
  BY <1>3, <1>4
<1> QED
  BY <1>5 DEF a, b, u, v

LEMMA LinkKeepsTables ==
  ASSUME Typed, IdentityMap, UserRuns, LinkTable
  PROVE  entry' \in [Slot -> Entry] /\ IdentityMap' /\ UserRuns'
<1> DEFINE q == request.page
           pte == CurPte
           linked(s) == s = <<i, PtIndex(q, i)>>
           child(s) == s[1] = i + 1 /\ s[2] \div Fanout = PtIndex(q, i)
<1>1. i \in Level \ {PT} /\ q \in Page /\ <<i, PtIndex(q, i)>> \in Slot
  <2>1. i \in Level /\ i # PT
    BY DEF LinkTable, Typed, Level, PML5, PT
  <2>2. q \in Page
    BY RequestParts DEF LinkTable
  <2> QED
    BY <2>1, <2>2, SlotOf
<1>2. /\ pte \in Entry
      /\ pte.size => pte.frame = PtIndex(q, i) * Span(i)
      /\ pte.user => ~pte.nx
  <2>1. pte = entry[<<i, PtIndex(q, i)>>]
    BY DEF CurPte, EntryOf
  <2> QED
    BY <1>1, <2>1 DEF Typed, IdentityMap, UserRuns
<1>3. 0 \in Page
  <2>1. Span(PML5) \in Nat \ {0}
    BY SpanProperties DEF Level, PML5, PT
  <2> QED
    BY <2>1 DEF Page
<1>4. LinkedEntry \in Entry /\ Absent \in Entry
  BY <1>3 DEF LinkedEntry, Absent, Entry
<1>5. ASSUME NEW s \in Slot, child(s)
      PROVE  LET e == ChildEntry(pte, s[2] % Fanout)
             IN  /\ e \in Entry
                 /\ e.size => e.frame = s[2] * Span(s[1])
                 /\ e.user => ~e.nx
  <2> DEFINE j == s[2] % Fanout
             e == ChildEntry(pte, j)
  <2>1. CASE ~pte.size
    <3>1. e = Absent
      BY <2>1 DEF ChildEntry
    <3> QED
      BY <1>4, <3>1 DEF Absent
  <2>2. CASE pte.size
    <3>1. pte.frame + Span(i + 1) * j = s[2] * Span(s[1])
      <4>1. s[1] = i + 1 /\ s[2] \div Fanout = PtIndex(q, i) /\ s[2] \in Nat
        BY <1>5, SlotParts
      <4>2. (s[2] \div Fanout) * Span(i) + Span(i + 1) * (s[2] % Fanout)
              = s[2] * Span(i + 1)
        BY <1>1, <4>1, ChildFrame
      <4>3. pte.frame = (s[2] \div Fanout) * Span(i)
        BY <1>2, <2>2, <4>1
      <4> QED
        BY <4>1, <4>2, <4>3, Zenon
    <3>2. e = [pte EXCEPT !.frame = s[2] * Span(s[1]), !.size = (i # PD)]
      <4>1. e = [pte EXCEPT !.frame = pte.frame + Span(i + 1) * j, !.size = (i # PD)]
        BY <2>2 DEF ChildEntry
      <4> QED
        BY <3>1, <4>1, Zenon
    <3>3. s[2] * Span(s[1]) \in Page
      BY SlotParts
    <3> HIDE DEF pte, e
    <3> DEFINE f == s[2] * Span(s[1])
               z == i # PD
    <3>4. z \in BOOLEAN
      OBVIOUS
    <3> HIDE DEF f, z
    <3>5. e \in Entry /\ e.frame = f /\ e.user = pte.user /\ e.nx = pte.nx
      BY <1>2, <3>2, <3>3, <3>4 DEF Entry, f, z
    <3>6. e.user => ~e.nx
      BY <1>2, <3>5, Zenon
    <3> QED
      BY <3>5, <3>6, Zenon DEF e, j, f
  <2> QED
    BY <2>1, <2>2
<1>6. \A s \in Slot : /\ linked(s) => entry'[s] = LinkedEntry
                      /\ ~linked(s) /\ child(s) => entry'[s] = ChildEntry(pte, s[2] % Fanout)
                      /\ ~linked(s) /\ ~child(s) => entry'[s] = entry[s]
  BY DEF LinkTable, LinkedEntry
<1>7. entry' = [s \in Slot |-> entry'[s]]
  BY DEF LinkTable
<1> HIDE DEF pte, linked, child, q
<1>8. \A s \in Slot : /\ entry'[s] \in Entry
                      /\ entry'[s].size => entry'[s].frame = s[2] * Span(s[1])
                      /\ s[1] # PT /\ entry'[s].user => ~entry'[s].nx
  <2> SUFFICES ASSUME NEW s \in Slot
               PROVE  /\ entry'[s] \in Entry
                      /\ entry'[s].size => entry'[s].frame = s[2] * Span(s[1])
                      /\ s[1] # PT /\ entry'[s].user => ~entry'[s].nx
    OBVIOUS
  <2>1. CASE linked(s)
    <3>1. entry'[s] = LinkedEntry /\ ~LinkedEntry.size /\ ~LinkedEntry.nx
      BY <1>6, <2>1 DEF LinkedEntry
    <3> QED
      BY <1>4, <3>1, Zenon
  <2>2. CASE ~linked(s) /\ child(s)
    BY <1>5, <1>6, <2>2, Zenon
  <2>3. CASE ~linked(s) /\ ~child(s)
    <3>1. entry'[s] = entry[s]
      BY <1>6, <2>3
    <3>2. entry[s] \in Entry
      BY DEF Typed
    <3> QED
      BY <3>1, <3>2, Zenon DEF IdentityMap, UserRuns
  <2> QED
    BY <2>1, <2>2, <2>3
<1> QED
  <2>1. entry' \in [Slot -> Entry]
    BY <1>7, <1>8
  <2>2. IdentityMap' /\ UserRuns'
    BY <1>8, Zenon DEF IdentityMap, UserRuns
  <2> QED
    BY <2>1, <2>2

LEMMA OneEntryKeepsTables ==
  ASSUME Typed, IdentityMap, UserRuns, NEW t \in Slot, NEW e \in Entry,
         entry' = [entry EXCEPT ![t] = e],
         e.size => e.frame = t[2] * Span(t[1]),
         t[1] # PT /\ e.user => ~e.nx
  PROVE  entry' \in [Slot -> Entry] /\ IdentityMap' /\ UserRuns'
<1>1. entry' \in [Slot -> Entry]
  BY DEF Typed
<1>2. \A s \in Slot : IF s = t THEN entry'[s] = e ELSE entry'[s] = entry[s]
  BY DEF Typed
<1>3. IdentityMap'
  BY <1>2, Zenon DEF IdentityMap
<1>4. UserRuns'
  BY <1>2, Zenon DEF UserRuns
<1> QED
  BY <1>1, <1>3, <1>4

LEMMA PteProtType == PteProt \in Rights
BY DEF PteProt, Rights

(* What the widening of an entry does.                                     *)
LEMMA Widened ==
  ASSUME NEW pte \in Entry
  PROVE  /\ WidenedPte(pte) \in Entry
         /\ WidenedPte(pte).size <=> pte.size
         /\ WidenedPte(pte).present <=> pte.present
         /\ WidenedPte(pte).frame = pte.frame
         /\ WidenedPte(pte).writable <=> pte.writable \/ PteProt.writable
         /\ WidenedPte(pte).user <=> pte.user \/ PteProt.user
         /\ WidenedPte(pte).nx => pte.nx
         /\ PteProt.user /\ ~pte.user => ~WidenedPte(pte).nx
<1> DEFINE w == pte.writable \/ PteProt.writable
           u == pte.user \/ PteProt.user
           wide == [pte EXCEPT !.writable = w, !.user = u, !.nx = FALSE]
           need == \/ PteProt.writable /\ ~pte.writable
                   \/ PteProt.user /\ ~pte.user
                   \/ PteProt.nx /\ pte.nx
<1>1. WidenedPte(pte) = IF need THEN wide ELSE pte
  BY DEF WidenedPte
<1>2. w \in BOOLEAN /\ u \in BOOLEAN
  OBVIOUS
<1> HIDE DEF w, u
<1>3. /\ wide \in Entry /\ wide.size = pte.size /\ wide.present = pte.present
      /\ wide.frame = pte.frame /\ wide.writable = w /\ wide.user = u /\ wide.nx = FALSE
  BY <1>2 DEF Entry
<1> HIDE DEF wide
<1>4. CASE need
  <2>1. WidenedPte(pte) = wide
    BY <1>1, <1>4, Zenon
  <2> HIDE DEF need
  <2> QED
    BY <1>3, <2>1, Zenon DEF w, u
<1>5. CASE ~need
  <2>1. WidenedPte(pte) = pte
    BY <1>1, <1>5, Zenon
  <2> QED
    BY <1>5, <2>1, Zenon
<1> QED
  BY <1>4, <1>5

LEMMA DescendKeepsTables ==
  ASSUME Typed, IdentityMap, UserRuns, Descend
  PROVE  entry' \in [Slot -> Entry] /\ IdentityMap' /\ UserRuns'
<1> DEFINE t == <<i, PtIndex(request.page, i)>>
           e == WidenedPte(CurPte)
<1>1. i \in Level \ {PT} /\ t \in Slot
  <2>1. i \in Level /\ i # PT
    BY DEF Descend, Typed, Level, PML5, PT
  <2>2. request.page \in Page
    BY RequestParts DEF Descend
  <2> QED
    BY <2>1, <2>2, SlotOf
<1>2. CurPte = entry[t] /\ t[1] = i
  BY DEF CurPte, EntryOf
<1>3. entry' = [entry EXCEPT ![t] = e]
  BY <1>2 DEF Descend
<1>4. CurPte \in Entry /\ (CurPte.user => ~CurPte.nx) /\ ~CurPte.size
  <2>1. CurPte \in Entry
    BY <1>1, <1>2 DEF Typed
  <2>2. CurPte.user => ~CurPte.nx
    BY <1>1, <1>2 DEF UserRuns
  <2> QED
    BY <2>1, <2>2 DEF Descend, NeedsTable
<1>5. e \in Entry /\ ~e.size /\ (e.user => ~e.nx)
  BY <1>4, Widened, Zenon
<1> HIDE DEF t, e
<1> QED
  BY <1>1, <1>3, <1>5, OneEntryKeepsTables, Zenon

LEMMA MapKeepsTables ==
  ASSUME Typed, IdentityMap, UserRuns, MapPage
  PROVE  entry' \in [Slot -> Entry] /\ IdentityMap' /\ UserRuns'
<1> DEFINE t == <<PT, request.page>>
           e == [present |-> TRUE, size |-> FALSE, frame |-> request.frame,
                 writable |-> PteProt.writable, user |-> PteProt.user,
                 nx |-> PteProt.nx]
<1>1. request.page \in Page /\ request.frame \in Page
  BY RequestParts DEF MapPage
<1>2. t \in Slot /\ t[1] = PT
  <2>1. PtIndex(request.page, PT) = request.page
    BY <1>1, LastIndex
  <2>2. PT \in Level
    BY DEF Level, PML5, PT
  <2> QED
    BY <1>1, <2>1, <2>2, SlotOf
<1>3. e \in Entry /\ ~e.size
  BY <1>1, PteProtType DEF Entry, Rights
<1>4. entry' = [entry EXCEPT ![t] = e]
  BY DEF MapPage
<1> HIDE DEF t, e
<1> QED
  BY <1>2, <1>3, <1>4, OneEntryKeepsTables, Zenon

----------------------------------------------------------------------------
(* What the steps do to the walk of a page.                                *)
LEMMA DescendEntries ==
  ASSUME Typed, Descend, NEW p \in Page, NEW n \in Level, n = i
  PROVE  /\ Root' = Root /\ n # PT
         /\ \A l \in Level : ~SameTable(p) \/ l # n => EntryOf(p, l)' = EntryOf(p, l)
         /\ SameTable(p) => /\ EntryOf(p, n)' = WidenedPte(EntryOf(p, n))
                            /\ EntryOf(p, n).present /\ ~EntryOf(p, n).size
<1> DEFINE q == request.page
           t == <<n, PtIndex(q, n)>>
<1>1. n # PT /\ t \in Slot /\ Root' = Root
  <2>1. n # PT /\ Root' = Root
    BY DEF Descend, Typed, Level, PML5, PT, Root
  <2>2. q \in Page
    BY RequestParts DEF Descend
  <2> QED
    BY <2>1, <2>2, SlotOf
<1>2. \A s \in Slot : entry'[s] = IF s = t THEN WidenedPte(entry[s]) ELSE entry[s]
  BY <1>1 DEF Descend, Typed
<1>3. \A l \in Level : /\ <<l, PtIndex(p, l)>> \in Slot
                       /\ EntryOf(p, l)' = entry'[<<l, PtIndex(p, l)>>]
                       /\ EntryOf(p, l) = entry[<<l, PtIndex(p, l)>>]
                       /\ <<l, PtIndex(p, l)>> = t <=> l = n /\ SameTable(p)
  BY SlotOf DEF EntryOf, SameTable
<1>4. SameTable(p) => CurPte = EntryOf(p, n)
  BY DEF SameTable, CurPte, EntryOf
<1> HIDE DEF t
<1>5. \A l \in Level : ~SameTable(p) \/ l # n => EntryOf(p, l)' = EntryOf(p, l)
  BY <1>2, <1>3, Zenon
<1>6. SameTable(p) => EntryOf(p, n)' = WidenedPte(EntryOf(p, n))
  BY <1>2, <1>3, Zenon
<1>7. SameTable(p) => EntryOf(p, n).present /\ ~EntryOf(p, n).size
  BY <1>4, Zenon DEF Descend, NeedsTable
<1> QED
  BY <1>1, <1>5, <1>6, <1>7, Zenon

LEMMA EntryOfType == Typed => \A p \in Page, l \in Level : EntryOf(p, l) \in Entry
BY SlotOf DEF Typed, EntryOf

(* Entries that only gain rights give a walk that gives at least as much.  *)
LEMMA EntriesGain ==
  ASSUME Typed, Typed', Root' = Root, NEW p \in Page,
         \A l \in Level :
           LET before == EntryOf(p, l)
               now == EntryOf(p, l)'
           IN  /\ now.present <=> before.present
               /\ now.size <=> before.size
               /\ now.frame = before.frame
               /\ before.writable => now.writable
               /\ before.user => now.user
               /\ now.nx => before.nx
  PROVE  Space!AtLeast(Translate(p), Translate(p)')
<1>1. PICK k \in Level : EndsAt(p, k)
  BY WalkEnds
<1>2. \A l \in Root .. k : l \in Level
  BY RootIsLevel DEF Level, PML5, PML4, PT
<1>3. \A l \in Root .. k - 1 : l \in Level
  BY RootIsLevel DEF Level, PML5, PML4, PT
<1>4. EndsAt(p, k)'
  BY <1>1, <1>3, Zenon DEF EndsAt
<1> QED
  BY <1>1, <1>2, <1>4, WalkGains, Zenon

LEMMA DescendWidens ==
  ASSUME Typed, Typed', Descend, NEW p \in Page
  PROVE  Space!AtLeast(Translate(p), Translate(p)')
<1>1. PICK n \in Level : n = i
  BY DEF Typed
<1>2. EntryOf(p, n) \in Entry
  BY EntryOfType
<1>3. ASSUME NEW l \in Level
      PROVE  /\ EntryOf(p, l)'.present <=> EntryOf(p, l).present
             /\ EntryOf(p, l)'.size <=> EntryOf(p, l).size
             /\ EntryOf(p, l)'.frame = EntryOf(p, l).frame
             /\ EntryOf(p, l).writable => EntryOf(p, l)'.writable
             /\ EntryOf(p, l).user => EntryOf(p, l)'.user
             /\ EntryOf(p, l)'.nx => EntryOf(p, l).nx
  <2>1. CASE EntryOf(p, l)' = EntryOf(p, l)
    BY <2>1, Zenon
  <2>2. CASE l = n /\ EntryOf(p, n)' = WidenedPte(EntryOf(p, n))
    <3> DEFINE before == EntryOf(p, l)
               now == EntryOf(p, l)'
    <3>1. before \in Entry /\ now = WidenedPte(before)
      BY <1>2, <2>2
    <3> HIDE DEF before, now
    <3>2. /\ now.size <=> before.size
          /\ now.present <=> before.present
          /\ now.frame = before.frame
          /\ now.writable <=> before.writable \/ PteProt.writable
          /\ now.user <=> before.user \/ PteProt.user
          /\ now.nx => before.nx
      BY <3>1, Widened, Zenon
    <3> QED
      BY <3>2, Zenon DEF before, now
  <2> QED
    BY <1>1, <2>1, <2>2, DescendEntries, Zenon
<1>4. Root' = Root
  BY <1>1, DescendEntries
<1> QED
  BY <1>3, <1>4, EntriesGain

(* The walk goes on with the same request; what is left of the invariant   *)
(* are the entries of the levels it has left.                              *)
LEMMA WalkInvFromEntries ==
  ASSUME NEW q \in Page, request.page = q, request' = request, Root' = Root,
         NEW m \in Level, i' = m, m >= Root,
         \A l \in Level : Root <= l /\ l < m =>
           /\ EntryOf(q, l)'.present /\ ~EntryOf(q, l)'.size
           /\ PteProt.writable => EntryOf(q, l)'.writable
           /\ PteProt.user => EntryOf(q, l)'.user
           /\ ~PteProt.nx => ~EntryOf(q, l)'.nx
  PROVE  WalkInv'
<1>1. PteProt' = PteProt
  BY Zenon DEF PteProt
<1>2. \A l \in Level : EntryOf(request.page, l)' = EntryOf(q, l)'
  BY DEF EntryOf
<1>3. \A l \in Level : Root <= l /\ l < m => LeadsOn(EntryOf(request.page, l))'
  BY <1>1, <1>2, Zenon DEF LeadsOn, Passes
<1> QED
  BY <1>3 DEF WalkInv

LEMMA SameRequest ==
  ASSUME Typed, remap_pc # "idle"
  PROVE  \E q \in Page, n \in Level : request.page = q /\ i = n /\ SameTable(q)
BY RequestParts DEF Typed, SameTable

LEMMA LinkWalkInv ==
  ASSUME Typed, WalkInv, LinkTable
  PROVE  WalkInv'
<1>1. PICK q \in Page, n \in Level : request.page = q /\ i = n /\ SameTable(q)
  BY SameRequest DEF LinkTable
<1>2. request' = request /\ i' = n /\ remap_pc = "walk"
  BY <1>1 DEF LinkTable
<1>3. n >= Root /\ \A l \in Level : Root <= l /\ l < n => LeadsOn(EntryOf(q, l))
  BY <1>1, <1>2 DEF WalkInv
<1>4. \A l \in Level : l < n => l \notin {n, n + 1}
  BY DEF Level, PML5, PT
<1>5. Root' = Root /\ \A l \in Level : l < n => EntryOf(q, l)' = EntryOf(q, l)
  BY <1>1, <1>4, LinkEntries, Zenon
<1>6. \A l \in Level : Root <= l /\ l < n =>
           /\ EntryOf(q, l)'.present /\ ~EntryOf(q, l)'.size
           /\ PteProt.writable => EntryOf(q, l)'.writable
           /\ PteProt.user => EntryOf(q, l)'.user
           /\ ~PteProt.nx => ~EntryOf(q, l)'.nx
  BY <1>3, <1>5, Zenon DEF LeadsOn, Passes
<1> QED
  BY <1>1, <1>2, <1>3, <1>5, <1>6, WalkInvFromEntries

LEMMA DescendWalkInv ==
  ASSUME Typed, UserRuns, RunsAsUser, WalkInv, Descend
  PROVE  WalkInv'
<1>1. PICK q \in Page, n \in Level : request.page = q /\ i = n /\ SameTable(q)
  BY SameRequest DEF Descend
<1>2. request' = request /\ i' = n + 1 /\ remap_pc = "walk" /\ n # PT
  BY <1>1 DEF Descend, Level, PML5, PT
<1>3. n >= Root /\ \A l \in Level : Root <= l /\ l < n => LeadsOn(EntryOf(q, l))
  BY <1>1, <1>2 DEF WalkInv
<1>4. n + 1 \in Level /\ n + 1 >= Root
  BY <1>2, <1>3, RootIsLevel DEF Level, PML5, PML4, PT
<1>5. Root' = Root /\ \A l \in Level : l # n => EntryOf(q, l)' = EntryOf(q, l)
  BY <1>1, DescendEntries, Zenon
<1>6. ASSUME NEW l \in Level, Root <= l, l < n + 1
      PROVE  /\ EntryOf(q, l)'.present /\ ~EntryOf(q, l)'.size
             /\ PteProt.writable => EntryOf(q, l)'.writable
             /\ PteProt.user => EntryOf(q, l)'.user
             /\ ~PteProt.nx => ~EntryOf(q, l)'.nx
  <2>1. CASE l # n
    <3>1. l < n
      BY <1>6, <2>1 DEF Level, PML5, PT
    <3>2. LeadsOn(EntryOf(q, l)) /\ EntryOf(q, l)' = EntryOf(q, l)
      BY <1>3, <1>5, <1>6, <2>1, <3>1
    <3> QED
      BY <3>2, Zenon DEF LeadsOn, Passes
  <2>2. CASE l = n
    <3> DEFINE before == EntryOf(q, l)
               now == EntryOf(q, l)'
    <3>1. before \in Entry /\ now = WidenedPte(before) /\ before.present /\ ~before.size
      <4>1. EntryOf(q, n) \in Entry
        BY EntryOfType
      <4>2. /\ EntryOf(q, n)' = WidenedPte(EntryOf(q, n))
            /\ EntryOf(q, n).present /\ ~EntryOf(q, n).size
        BY <1>1, DescendEntries
      <4> QED
        BY <2>2, <4>1, <4>2
    <3>2. before.user => ~before.nx
      <4>1. <<l, PtIndex(q, l)>> \in Slot /\ before = entry[<<l, PtIndex(q, l)>>]
        BY SlotOf DEF EntryOf
      <4>2. <<l, PtIndex(q, l)>>[1] # PT
        BY <1>2, <2>2
      <4> QED
        BY <4>1, <4>2 DEF UserRuns
    <3>3. ~PteProt.nx => PteProt.user
      BY <1>2 DEF RunsAsUser, PteProt
    <3> HIDE DEF before, now
    <3>4. /\ now.size <=> before.size
          /\ now.present <=> before.present
          /\ now.writable <=> before.writable \/ PteProt.writable
          /\ now.user <=> before.user \/ PteProt.user
          /\ now.nx => before.nx
          /\ PteProt.user /\ ~before.user => ~now.nx
      BY <3>1, Widened, Zenon
    <3>5. /\ now.present /\ ~now.size
          /\ PteProt.writable => now.writable
          /\ PteProt.user => now.user
          /\ ~PteProt.nx => ~now.nx
      BY <3>1, <3>2, <3>3, <3>4, Zenon
    <3> QED
      BY <3>5, Zenon DEF now
  <2> QED
    BY <2>1, <2>2
<1> HIDE DEF Descend
<1> QED
  BY <1>1, <1>2, <1>4, <1>5, <1>6, WalkInvFromEntries

(* A table in the place of a large page, or of nothing, changes no walk,   *)
(* except that the large page's rights are found one level lower.          *)
LEMMA LinkWidens ==
  ASSUME Typed, Typed', WalkInv, LinkTable, NEW p \in Page
  PROVE  Space!AtLeast(Translate(p), Translate(p)')
<1> USE RootIsLevel DEF Level, PML5, PML4, PDPT, PD, PT
<1>1. PICK q \in Page, n \in Level : request.page = q /\ i = n /\ SameTable(q)
  BY SameRequest DEF LinkTable
<1>2. Root' = Root /\ n # PT /\ n >= Root /\ n + 1 \in Level
  BY <1>1, LinkEntries DEF WalkInv, LinkTable
<1>3. CASE ~SameTable(p)
  <2>1. \A l \in Level : EntryOf(p, l)' = EntryOf(p, l)
    BY <1>1, <1>3, LinkEntries, Zenon
  <2> QED
    BY <1>2, <2>1, EntriesGain, Zenon
<1>4. CASE SameTable(p)
  <2>1. \A l \in Level : l # n /\ l # n + 1 => EntryOf(p, l)' = EntryOf(p, l)
    BY <1>1, LinkEntries, Zenon
  <2>2. /\ EntryOf(p, n)' = LinkedEntry
        /\ EntryOf(p, n + 1)' = ChildEntry(EntryOf(p, n), PtIndex(p, n + 1) % Fanout)
        /\ ~EntryOf(p, n).present \/ EntryOf(p, n).size
    BY <1>1, <1>4, LinkEntries
  <2>3. /\ EntryOf(p, n)'.present /\ ~EntryOf(p, n)'.size
        /\ EntryOf(p, n)'.writable /\ EntryOf(p, n)'.user /\ ~EntryOf(p, n)'.nx
    BY <2>2 DEF LinkedEntry
  <2>4. \A l \in Level : Root <= l /\ l < n =>
          /\ EntryOf(p, l) = EntryOf(q, l) /\ EntryOf(p, l)' = EntryOf(p, l)
          /\ EntryOf(p, l).present /\ ~EntryOf(p, l).size
    <3> SUFFICES ASSUME NEW l \in Level, Root <= l, l < n
                 PROVE  /\ EntryOf(p, l) = EntryOf(q, l) /\ EntryOf(p, l)' = EntryOf(p, l)
                        /\ EntryOf(p, l).present /\ ~EntryOf(p, l).size
      OBVIOUS
    <3>1. PtIndex(p, n) = PtIndex(q, n)
      BY <1>1, <1>4 DEF SameTable
    <3>2. PtIndex(p, l) = PtIndex(q, l)
      BY <3>1, SharedAbove
    <3>3. EntryOf(p, l) = EntryOf(q, l)
      BY <3>2, Zenon DEF EntryOf
    <3>4. LeadsOn(EntryOf(q, l))
      BY <1>1 DEF WalkInv, LinkTable
    <3> QED
      BY <2>1, <3>3, <3>4 DEF LeadsOn, Passes
  <2>5. EntryOf(p, n) \in Entry
    BY EntryOfType
  <2>6. CASE EntryOf(p, n).size
    <3> DEFINE old == EntryOf(p, n)
               new == EntryOf(p, n + 1)'
               j == PtIndex(p, n + 1) % Fanout
    <3>1. new = [old EXCEPT !.frame = old.frame + Span(n + 1) * j, !.size = (n # PD)]
      BY <1>1, <2>2, <2>6 DEF ChildEntry
    <3>2. EndsAt(p, n)
      BY <1>2, <2>4, <2>6 DEF EndsAt
    <3>3. /\ new.frame = old.frame + Span(n + 1) * j
          /\ new.present = old.present /\ new.writable = old.writable
          /\ new.user = old.user /\ new.nx = old.nx /\ (new.size <=> n # PD)
      <4> DEFINE f == old.frame + Span(n + 1) * j
                 z == n # PD
      <4>1. z \in BOOLEAN
        OBVIOUS
      <4> HIDE DEF old, new, f, z
      <4>2. /\ new.frame = f /\ new.size = z
            /\ new.present = old.present /\ new.writable = old.writable
            /\ new.user = old.user /\ new.nx = old.nx
        BY <2>5, <3>1 DEF Entry, f, z, old
      <4>3. new.size <=> z
        BY <4>2, Zenon
      <4> QED
        BY <4>2, <4>3, Zenon DEF f, z
    <3>4. EndsAt(p, n + 1)'
      <4>1. new.size \/ n + 1 = PT
        BY <1>2, <3>3
      <4>2. \A l \in Root' .. n : ~EntryOf(p, l)'.size
        BY <1>2, <2>3, <2>4
      <4>3. n + 1 \in Root' .. PT
        BY <1>2
      <4> QED
        BY <4>1, <4>2, <4>3 DEF EndsAt
    <3>5. new.frame + (p % Span(n + 1)) = old.frame + (p % Span(n))
      <4> DEFINE a == Span(n + 1) * j
                 r == p % Span(n + 1)
                 t == p % Span(n)
                 f == old.frame
      <4>1. t = a + r
        BY <1>2, NextIndex
      <4>2. a \in Int /\ r \in Int /\ f \in Int
        <5>1. PtIndex(p, n + 1) \in Nat /\ Fanout \in Nat \ {0}
              /\ Span(n + 1) \in Nat \ {0} /\ p \in Nat
          BY <1>2, NextIndex, RemapAssumption, SpanProperties, PageIsNat
        <5>2. j \in Int /\ r \in Int
          <6>1. j \in 0 .. Fanout - 1 /\ r \in 0 .. Span(n + 1) - 1
            BY <5>1, Division
          <6> HIDE DEF j, r
          <6> QED
            BY <5>1, <6>1
        <5>3. a \in Int
          BY <5>1, <5>2
        <5>4. f \in Page
          BY <2>5 DEF Entry
        <5> QED
          BY <5>2, <5>3, <5>4, PageIsNat
      <4>3. new.frame = f + a
        BY <3>3
      <4> HIDE DEF a, r, t, f, old, new
      <4>4. new.frame + r = f + t
        BY <4>1, <4>2, <4>3
      <4> QED
        BY <4>4 DEF r, t, f
    <3>6. \A l \in Root .. n : l = n \/ (l \in Level /\ Root <= l /\ l < n)
      OBVIOUS
    <3>7. \A l \in Root' .. n + 1 : l = n + 1 \/ l \in Root .. n
      BY <1>2
    <3>8. n \in Root .. n /\ n + 1 \in Root' .. n + 1
          /\ \A l \in Root .. n : l \in Root' .. n + 1
      BY <1>2
    <3>9. \A l \in Root .. n : l = n \/ EntryOf(p, l)' = EntryOf(p, l)
      BY <2>4, <3>6, Zenon
    <3> HIDE DEF new, old
    <3>10. (\A l \in Root .. n : EntryOf(p, l).present)
             <=> (\A l \in Root' .. n + 1 : EntryOf(p, l)'.present)
      BY <2>3, <3>3, <3>7, <3>8, <3>9, Zenon DEF old, new
    <3>11. (\A l \in Root .. n : EntryOf(p, l).writable)
             => (\A l \in Root' .. n + 1 : EntryOf(p, l)'.writable)
      BY <2>3, <3>3, <3>7, <3>8, <3>9, Zenon DEF old, new
    <3>12. (\A l \in Root .. n : EntryOf(p, l).user)
             => (\A l \in Root' .. n + 1 : EntryOf(p, l)'.user)
      BY <2>3, <3>3, <3>7, <3>8, <3>9, Zenon DEF old, new
    <3>13. (\A l \in Root .. n : ~EntryOf(p, l).nx)
             => (\A l \in Root' .. n + 1 : ~EntryOf(p, l)'.nx)
      BY <2>3, <3>3, <3>7, <3>8, <3>9, Zenon DEF old, new
    <3> QED
      BY <1>2, <3>2, <3>4, <3>5, <3>10, <3>11, <3>12, <3>13, WalkGains, Zenon DEF old, new
  <2>7. CASE ~EntryOf(p, n).size
    <3>1. ~EntryOf(p, n).present
      BY <2>2, <2>7
    <3>2. ~EntryOf(p, n + 1)'.present
      BY <2>2, <2>7 DEF ChildEntry, Absent
    <3>3. Translate(p) = Unmapped
      <4>1. PICK k \in Level : EndsAt(p, k)
        BY WalkEnds
      <4>2. n \in Root .. k
        <5>1. ~(k < n)
          <6> SUFFICES ASSUME k < n PROVE FALSE
            OBVIOUS
          <6>1. Root <= k /\ (EntryOf(p, k).size \/ k = PT)
            BY <4>1 DEF EndsAt
          <6>2. ~EntryOf(p, k).size
            BY <2>4, <6>1
          <6> QED
            BY <6>1, <6>2
        <5> QED
          BY <1>2, <5>1
      <4> QED
        BY <3>1, <4>1, <4>2, WalkHasParts, Zenon DEF WalkParts
    <3>4. Translate(p)' = Unmapped
      <4>1. PICK k \in Level : EndsAt(p, k)'
        BY WalkEndsNext
      <4>2. n + 1 \in Root' .. k
        <5>1. ~(k <= n)
          <6> SUFFICES ASSUME k <= n PROVE FALSE
            OBVIOUS
          <6>1. Root <= k /\ (EntryOf(p, k)'.size \/ k = PT)
            BY <1>2, <4>1 DEF EndsAt
          <6>2. ~EntryOf(p, k)'.size
            <7>1. CASE k = n
              BY <2>3, <7>1
            <7>2. CASE k < n
              BY <2>4, <6>1, <7>2
            <7> QED
              BY <7>1, <7>2
          <6> QED
            BY <1>2, <6>1, <6>2
        <5> QED
          BY <1>2, <5>1
      <4> QED
        BY <3>2, <4>1, <4>2, WalkHasPartsNext, Zenon DEF WalkParts
    <3> QED
      BY <3>3, <3>4, Zenon DEF Space!AtLeast
  <2> QED
    BY <2>6, <2>7
<1> QED
  BY <1>3, <1>4

(* The entry of the page itself changes that page's walk only.             *)
LEMMA MapEntries ==
  ASSUME Typed, MapPage, NEW p \in Page
  PROVE  /\ Root' = Root
         /\ \A l \in Level : l # PT \/ p # request.page => EntryOf(p, l)' = EntryOf(p, l)
         /\ p = request.page => EntryOf(p, PT)' =
              [present |-> TRUE, size |-> FALSE, frame |-> request.frame,
               writable |-> PteProt.writable, user |-> PteProt.user, nx |-> PteProt.nx]
<1> DEFINE q == request.page
           t == <<PT, q>>
           e == [present |-> TRUE, size |-> FALSE, frame |-> request.frame,
                 writable |-> PteProt.writable, user |-> PteProt.user, nx |-> PteProt.nx]
<1>1. q \in Page /\ PT \in Level /\ Root' = Root
  BY RequestParts DEF MapPage, Level, PML5, PT, Root
<1>2. t \in Slot
  BY <1>1, SlotOf, LastIndex
<1>3. \A s \in Slot : entry'[s] = IF s = t THEN e ELSE entry[s]
  BY <1>2 DEF MapPage, Typed
<1>4. \A l \in Level : /\ <<l, PtIndex(p, l)>> \in Slot
                       /\ EntryOf(p, l)' = entry'[<<l, PtIndex(p, l)>>]
                       /\ EntryOf(p, l) = entry[<<l, PtIndex(p, l)>>]
                       /\ <<l, PtIndex(p, l)>> = t => l = PT /\ p = q
  BY SlotOf, LastIndex DEF EntryOf
<1>5. p = q => <<PT, PtIndex(p, PT)>> = t
  BY LastIndex
<1> HIDE DEF t, e, q
<1>6. \A l \in Level : l # PT \/ p # q => EntryOf(p, l)' = EntryOf(p, l)
  BY <1>3, <1>4, Zenon
<1>7. p = q => EntryOf(p, PT)' = e
  BY <1>1, <1>3, <1>4, <1>5, Zenon
<1> QED
  BY <1>1, <1>6, <1>7, Zenon DEF q, e

LEMMA MapKeepsOthers ==
  ASSUME Typed, MapPage, NEW p \in Page, p # request.page
  PROVE  Translate(p)' = Translate(p)
<1>1. PICK k \in Level : EndsAt(p, k)
  BY WalkEnds
<1>2. Root' = Root /\ \A l \in Level : EntryOf(p, l)' = EntryOf(p, l)
  BY MapEntries, Zenon
<1>3. (\A l \in Root .. k : l \in Level) /\ \A l \in Root .. k - 1 : l \in Level
  BY RootIsLevel DEF Level, PML5, PML4, PT
<1>4. EndsAt(p, k)'
  BY <1>1, <1>2, <1>3, Zenon DEF EndsAt
<1>5. WalkTo(p, k)' = WalkTo(p, k)
  <2>1. (\E l \in Root' .. k : ~EntryOf(p, l)'.present)
          <=> (\E l \in Root .. k : ~EntryOf(p, l).present)
    BY <1>2, <1>3, Zenon
  <2> DEFINE w == \A l \in Root .. k : EntryOf(p, l).writable
             u == \A l \in Root .. k : EntryOf(p, l).user
             x == \A l \in Root .. k : ~EntryOf(p, l).nx
             w1 == \A l \in Root' .. k : EntryOf(p, l)'.writable
             u1 == \A l \in Root' .. k : EntryOf(p, l)'.user
             x1 == \A l \in Root' .. k : ~EntryOf(p, l)'.nx
  <2>2. w = w1
    BY <1>2, <1>3
  <2>3. u = u1
    BY <1>2, <1>3
  <2>4. x = x1
    BY <1>2, <1>3
  <2>5. EntryOf(p, k)' = EntryOf(p, k)
    BY <1>2
  <2>6. WalkTo(p, k) =
          IF \E l \in Root .. k : ~EntryOf(p, l).present THEN Unmapped
          ELSE [frame |-> EntryOf(p, k).frame + (p % Span(k)), writable |-> w,
                user |-> u, executable |-> x]
    BY Zenon DEF WalkTo
  <2>7. WalkTo(p, k)' =
          IF \E l \in Root' .. k : ~EntryOf(p, l)'.present THEN Unmapped
          ELSE [frame |-> EntryOf(p, k)'.frame + (p % Span(k)), writable |-> w1,
                user |-> u1, executable |-> x1]
    BY Zenon DEF WalkTo
  <2> HIDE DEF w, u, x, w1, u1, x1
  <2> QED
    BY <2>1, <2>2, <2>3, <2>4, <2>5, <2>6, <2>7, Zenon
<1> QED
  BY <1>1, <1>4, <1>5, WalkTranslates, WalkTranslatesNext, Zenon

(* The page has an entry of its own, and the levels above withhold nothing *)
(* of it.                                                                  *)
Mapped(p, e) ==
  /\ EntryOf(p, PT) = e
  /\ \A l \in Level : Root <= l /\ l < PT => Passes(EntryOf(p, l), e)

LEMMA MappedTranslates ==
  Typed => \A p \in Page, e \in Entry : Mapped(p, e) /\ e.present =>
    Translate(p) = [frame |-> e.frame, writable |-> e.writable, user |-> e.user,
                    executable |-> ~e.nx]
<1> SUFFICES ASSUME Typed, NEW p \in Page, NEW e \in Entry, Mapped(p, e), e.present
             PROVE  Translate(p) = [frame |-> e.frame, writable |-> e.writable,
                                    user |-> e.user, executable |-> ~e.nx]
  OBVIOUS
<1> USE RootIsLevel DEF Level, PML5, PML4, PDPT, PD, PT
<1>1. EntryOf(p, PT) = e
  BY DEF Mapped
<1>2. \A l \in Level : Root <= l /\ l < PT =>
        /\ EntryOf(p, l).present /\ ~EntryOf(p, l).size
        /\ e.writable => EntryOf(p, l).writable
        /\ e.user => EntryOf(p, l).user
        /\ ~e.nx => ~EntryOf(p, l).nx
  BY Zenon DEF Mapped, Passes
<1>3. EndsAt(p, PT)
  BY <1>2 DEF EndsAt
<1>4. PT \in Root .. PT
      /\ \A l \in Root .. PT : l = PT \/ (l \in Level /\ Root <= l /\ l < PT)
  OBVIOUS
<1> DEFINE w == \A l \in Root .. PT : EntryOf(p, l).writable
           u == \A l \in Root .. PT : EntryOf(p, l).user
           x == \A l \in Root .. PT : ~EntryOf(p, l).nx
<1>5. w <=> e.writable
  BY <1>1, <1>2, <1>4, Zenon
<1>6. u <=> e.user
  BY <1>1, <1>2, <1>4, Zenon
<1>7. x <=> ~e.nx
  BY <1>1, <1>2, <1>4, Zenon
<1>8. ~ \E l \in Root .. PT : ~EntryOf(p, l).present
  BY <1>1, <1>2, <1>4, Zenon
<1>9. WalkTo(p, PT) = [frame |-> e.frame + (p % Span(PT)), writable |-> w, user |-> u,
                       executable |-> x]
  BY <1>1, <1>8, Zenon DEF WalkTo
<1>10. w \in BOOLEAN /\ u \in BOOLEAN /\ x \in BOOLEAN
  OBVIOUS
<1>11. e.frame + (p % Span(PT)) = e.frame
  <2>1. e.frame \in Page
    BY DEF Entry
  <2>2. p \in Nat /\ Span(PT) = 1 /\ e.frame \in Nat
    BY <2>1, PageIsNat, SpanProperties
  <2> QED
    BY <2>2
<1> HIDE DEF w, u, x
<1>12. w = e.writable /\ u = e.user /\ x = (~e.nx)
  BY <1>5, <1>6, <1>7, <1>10 DEF Entry
<1>13. Translate(p) = WalkTo(p, PT)
  BY <1>3, WalkTranslates
<1> QED
  BY <1>9, <1>11, <1>12, <1>13, Zenon

LEMMA MappedTranslatesNext ==
  Typed' => \A p \in Page, e \in Entry : Mapped(p, e)' /\ e.present =>
    Translate(p)' = [frame |-> e.frame, writable |-> e.writable, user |-> e.user,
                     executable |-> ~e.nx]
<1>1. (Typed => \A p \in Page, e \in Entry : Mapped(p, e) /\ e.present =>
         Translate(p) = [frame |-> e.frame, writable |-> e.writable, user |-> e.user,
                         executable |-> ~e.nx])'
  BY MappedTranslates, PTL
<1> QED
  BY <1>1

(* The entry and the translation that are asked for.                       *)
PageEntry == [present |-> TRUE, size |-> FALSE, frame |-> request.frame,
              writable |-> PteProt.writable, user |-> PteProt.user, nx |-> PteProt.nx]

Target == [frame |-> request.frame, writable |-> PteProt.writable,
           user |-> PteProt.user, executable |-> ~PteProt.nx]

(* The walk has left every level above in a state that withholds nothing.  *)
LEMMA MapMaps ==
  ASSUME Typed, WalkInv, MapPage, NEW q \in Page, q = request.page,
         NEW e, e = PageEntry
  PROVE  Mapped(q, e)'
<1>1. i = PT /\ remap_pc = "walk"
  BY DEF MapPage
<1>2. \A l \in Level : Root <= l /\ l < PT => LeadsOn(EntryOf(q, l))
  BY <1>1 DEF WalkInv
<1>3. Root' = Root /\ \A l \in Level : l # PT => EntryOf(q, l)' = EntryOf(q, l)
  BY MapEntries, Zenon
<1>4. EntryOf(q, PT)' = e
  BY MapEntries DEF PageEntry
<1>5. \A l \in Level : l < PT => l # PT
  BY DEF Level, PML5, PT
<1>6. e.writable = PteProt.writable /\ e.user = PteProt.user /\ e.nx = PteProt.nx
  BY DEF PageEntry
<1>7. \A l \in Level : Root <= l /\ l < PT => Passes(EntryOf(q, l), e)
  BY <1>2, <1>6, Zenon DEF LeadsOn, Passes
<1>8. \A l \in Level : Root' <= l /\ l < PT => Passes(EntryOf(q, l), e)'
  BY <1>3, <1>5, <1>7, Zenon DEF Passes
<1> QED
  BY <1>4, <1>8, Zenon DEF Mapped

LEMMA PageEntryType ==
  ASSUME Typed, remap_pc # "idle" PROVE PageEntry \in Entry /\ PageEntry.present
BY RequestParts, PteProtType DEF PageEntry, Entry, Rights

LEMMA MapGrants ==
  ASSUME Typed, Typed', WalkInv, MapPage, NEW q \in Page, q = request.page
  PROVE  Translate(q)' = Target
<1>1. PICK e \in Entry : e = PageEntry /\ e.present
  BY PageEntryType DEF MapPage
<1>2. Mapped(q, e)'
  BY <1>1, MapMaps
<1>3. Translate(q)' = [frame |-> e.frame, writable |-> e.writable, user |-> e.user,
                       executable |-> ~e.nx]
  BY <1>1, <1>2, MappedTranslatesNext, Zenon
<1> QED
  BY <1>1, <1>3 DEF PageEntry, Target

----------------------------------------------------------------------------
(* The invariant.                                                          *)
PageChosen ==
  pc \notin {"detect", "perf counters", "stack", "user pages", "returned"} =>
    user_code_page_rw \in UserPage

TablesOK == entry \in [Slot -> Entry] /\ IdentityMap /\ UserRuns

TableInv == Typed /\ TablesOK /\ RunsAsUser /\ WalkInv /\ PageChosen

LEMMA FirmwareTablesOK ==
  ASSUME NEW f \in Firmwares, entry = FirmwareTables(f)
  PROVE  TablesOK
<1> USE DEF PML5, PML4, PDPT, PD, PT
<1> DEFINE pointer == [present |-> TRUE, size |-> FALSE, frame |-> 0,
                       writable |-> f.upper.writable, user |-> f.upper.user,
                       nx |-> f.upper.nx]
           region(s) == IF s[1] < PDPT THEN 0 ELSE (s[2] * Span(s[1])) \div Span(PDPT)
           leaf(s) == [present |-> TRUE, size |-> s[1] # PT, frame |-> s[2] * Span(s[1]),
                       writable |-> f.leaf.writable, user |-> f.leaf.user,
                       nx |-> f.leaf.nx]
<1>1. f.upper \in Rights /\ f.leaf \in Rights /\ ~f.leaf.user
      /\ (f.upper.user => ~f.upper.nx)
  BY RemapAssumption
<1>2. 0 \in Page
  <2>1. Span(PML5) \in Nat \ {0}
    BY SpanProperties DEF Level
  <2> QED
    BY <2>1 DEF Page
<1>3. \A s \in Slot : entry[s] = pointer \/ entry[s] = leaf(s) \/ entry[s] = Absent
  BY Zenon DEF FirmwareTables
<1>4. pointer \in Entry /\ ~pointer.size /\ (pointer.user => ~pointer.nx)
  BY <1>1, <1>2 DEF Entry, Rights
<1>5. Absent \in Entry /\ ~Absent.size /\ ~Absent.user
  BY <1>2 DEF Absent, Entry
<1>6. ASSUME NEW s \in Slot
      PROVE  leaf(s) \in Entry /\ leaf(s).frame = s[2] * Span(s[1]) /\ ~leaf(s).user
  <2> DEFINE a == s[2] * Span(s[1])
             z == s[1] # PT
  <2>1. a \in Page /\ z \in BOOLEAN
    BY SlotParts
  <2> HIDE DEF a, z
  <2>2. leaf(s) \in Entry /\ leaf(s).frame = a /\ leaf(s).user = f.leaf.user
    BY <1>1, <2>1 DEF Entry, Rights, a, z
  <2> QED
    BY <1>1, <2>2, Zenon DEF a
<1> HIDE DEF pointer, leaf
<1>7. \A s \in Slot : /\ entry[s] \in Entry
                      /\ entry[s].size => entry[s].frame = s[2] * Span(s[1])
                      /\ entry[s].user => ~entry[s].nx
  BY <1>3, <1>4, <1>5, <1>6, Zenon
<1>8. entry = [s \in Slot |-> entry[s]]
  BY Zenon DEF FirmwareTables
<1>9. entry \in [Slot -> Entry]
  BY <1>7, <1>8
<1> QED
  BY <1>7, <1>9, Zenon DEF TablesOK, IdentityMap, UserRuns

LEMMA InitTableInv == Init => TableInv
<1> SUFFICES ASSUME Init PROVE TableInv
  OBVIOUS
<1>1. PICK f \in Firmwares : RemapInit(f)
  BY DEF Init
<1>2. TablesOK
  BY <1>1, FirmwareTablesOK DEF RemapInit
<1>3. la57 \in BOOLEAN /\ i \in Level /\ request = NoRequest /\ remap_pc = "idle"
  <2>1. /\ la57 = f.la57 /\ i = PML4 /\ request = NoRequest
        /\ remap_pc = "idle"
    BY <1>1, Zenon DEF RemapInit
  <2>2. f.la57 \in BOOLEAN
    BY RemapAssumption, Zenon
  <2> QED
    BY <2>1, <2>2 DEF Level, PML5, PML4, PT
<1> QED
  BY <1>2, <1>3 DEF TableInv, Typed, TablesOK, RunsAsUser, WalkInv, PageChosen, Init

LEMMA NextPageChosen == PageChosen /\ [Next]_vars => PageChosen'
<1> SUFFICES ASSUME PageChosen, [Next]_vars PROVE PageChosen'
  OBVIOUS
<1> USE DEF PageChosen
<1>1. CASE DetectCpu \/ InitPerfCounters \/ AllocateKernelStack
  BY <1>1 DEF DetectCpu, InitPerfCounters, AllocateKernelStack
<1>2. CASE AllocateUserPages
  BY <1>2 DEF AllocateUserPages
<1>3. CASE EnableCpuFeatures \/ AllocateXsaveArea \/ OpenTheSaveFile \/ MaskInterrupts
           \/ RemapUserPages \/ RemapRuns \/ LoadTables \/ EnterUser
  <2>1. /\ pc \notin {"detect", "perf counters", "stack", "user pages", "returned"}
        /\ user_code_page_rw' = user_code_page_rw
    BY <1>3 DEF EnableCpuFeatures, AllocateXsaveArea, OpenTheSaveFile, MaskInterrupts,
       RemapUserPages, RemapRuns, LoadTables, EnterUser
  <2> QED
    BY <2>1
<1>4. CASE UNCHANGED vars
  BY <1>4 DEF vars, bootVars
<1> QED
  BY <1>1, <1>2, <1>3, <1>4 DEF Next

(* The two calls.                                                          *)
LEMMA BeginKeeps ==
  ASSUME TableInv, RemapUserPages
  PROVE  /\ Typed' /\ TablesOK' /\ RunsAsUser' /\ WalkInv'
         /\ request = NoRequest /\ request' \in Request
         /\ UNCHANGED <<entry, la57>>
<1>1. user_code_page_rw \in Page /\ user_code_page_for_exec \in Page
  <2>1. user_code_page_rw \in UserPage
    BY DEF TableInv, PageChosen, RemapUserPages
  <2> QED
    BY <2>1, BootAssumption DEF user_code_page_for_exec
<1>2. /\ UNCHANGED <<entry, la57>> /\ i' = Root
      /\ remap_pc = "idle" /\ remap_pc' = "walk"
      /\ \/ request' = [page |-> user_code_page_rw, frame |-> user_code_page_rw,
                        prot |-> {"PROT_READ", "PROT_WRITE"}]
         \/ request' = [page |-> user_code_page_for_exec, frame |-> user_code_page_rw,
                        prot |-> {"PROT_READ", "PROT_EXEC", "PROT_USER"}]
  BY DEF RemapUserPages, RemapBegin
<1>3. request' \in Request
  BY <1>1, <1>2 DEF Request, Prot
<1>4. request' # NoRequest /\ request = NoRequest
  BY <1>2, <1>3, AbsenceAssumption DEF TableInv, Typed
<1>5. i' \in Level /\ Root' = Root
  BY <1>2, RootIsLevel DEF Level, PML5, PML4, PT, Root
<1>6. Typed'
  BY <1>2, <1>3, <1>4, <1>5 DEF TableInv, Typed
<1>7. TablesOK'
  BY <1>2 DEF TableInv, TablesOK, IdentityMap, UserRuns
<1>8. RunsAsUser'
  BY <1>2 DEF RunsAsUser
<1>9. WalkInv'
  <2>1. \A l \in Level : ~(Root <= l /\ l < Root)
    BY RootIsLevel DEF Level, PML5, PML4, PT
  <2>2. Root >= Root
    BY RootIsLevel DEF PML5, PML4
  <2>3. \A l \in Level : ~(Root' <= l /\ l < i')
    BY <1>2, <1>5, <2>1
  <2>4. i' >= Root'
    BY <1>2, <1>5, <2>2
  <2> QED
    BY <2>3, <2>4, Zenon DEF WalkInv
<1> QED
  BY <1>2, <1>3, <1>4, <1>6, <1>7, <1>8, <1>9

LEMMA RemapStepKeeps ==
  ASSUME TableInv, RemapStep
  PROVE  Typed' /\ TablesOK' /\ RunsAsUser' /\ WalkInv'
<1> USE DEF TableInv
<1>1. CASE LinkTable
  <2>1. TablesOK'
    BY <1>1, LinkKeepsTables DEF TablesOK
  <2>2. UNCHANGED <<la57, request, i, remap_pc>>
    BY <1>1 DEF LinkTable
  <2>3. Typed' /\ RunsAsUser'
    BY <2>1, <2>2 DEF TablesOK, Typed, RunsAsUser
  <2> QED
    BY <1>1, <2>1, <2>3, LinkWalkInv
<1>2. CASE Descend
  <2>1. TablesOK'
    BY <1>2, DescendKeepsTables DEF TablesOK
  <2>2. UNCHANGED <<la57, request, remap_pc>> /\ i < PT /\ i' = i + 1
    BY <1>2 DEF Descend
  <2>3. i' \in Level
    BY <2>2 DEF Typed, Level, PML5, PT
  <2>4. Typed' /\ RunsAsUser'
    BY <2>1, <2>2, <2>3 DEF TablesOK, Typed, RunsAsUser
  <2>5. WalkInv'
    BY <1>2, DescendWalkInv DEF TablesOK
  <2> QED
    BY <2>1, <2>4, <2>5
<1>3. CASE MapPage
  <2>1. TablesOK'
    BY <1>3, MapKeepsTables DEF TablesOK
  <2>2. UNCHANGED <<la57, request, i>> /\ remap_pc = "walk" /\ remap_pc' = "mapped"
    BY <1>3 DEF MapPage
  <2> QED
    BY <2>1, <2>2 DEF TablesOK, Typed, RunsAsUser, WalkInv
<1>4. CASE FlushTlb
  <2>1. /\ UNCHANGED <<entry, la57, request, i>>
        /\ remap_pc = "mapped" /\ remap_pc' = "flushed"
    BY <1>4 DEF FlushTlb
  <2> QED
    BY <2>1 DEF TablesOK, IdentityMap, UserRuns, Typed, RunsAsUser, WalkInv
<1>5. CASE RemapReturns \/ AllocationFails
  <2>1. UNCHANGED <<entry, la57, i>> /\ request' = NoRequest /\ remap_pc' = "idle"
    BY <1>5 DEF RemapReturns, AllocationFails
  <2> QED
    BY <2>1 DEF TablesOK, IdentityMap, UserRuns, Typed, RunsAsUser, WalkInv
<1> QED
  BY <1>1, <1>2, <1>3, <1>4, <1>5 DEF RemapStep

LEMMA NextTableInv == TableInv /\ [Next]_vars => TableInv'
<1> SUFFICES ASSUME TableInv, [Next]_vars PROVE TableInv'
  OBVIOUS
<1>1. PageChosen'
  BY NextPageChosen DEF TableInv
<1>2. CASE RemapUserPages
  BY <1>1, <1>2, BeginKeeps DEF TableInv
<1>3. CASE RemapStep
  BY <1>1, <1>3, RemapStepKeeps DEF TableInv
<1>4. CASE UNCHANGED remapVars
  <2>1. UNCHANGED <<entry, la57, request, i, remap_pc>>
    BY <1>4 DEF remapVars
  <2>2. Typed' /\ TablesOK'
    BY <2>1 DEF TableInv, Typed, TablesOK, IdentityMap, UserRuns
  <2>3. RunsAsUser'
    BY <2>1 DEF TableInv, RunsAsUser
  <2>4. WalkInv'
    BY <2>1, Zenon DEF TableInv, WalkInv, LeadsOn, Passes, EntryOf, PteProt, Root
  <2> QED
    BY <1>1, <2>2, <2>3, <2>4 DEF TableInv
<1>5. RemapUserPages \/ RemapStep \/ UNCHANGED remapVars
  BY DEF Next, DetectCpu, InitPerfCounters, AllocateKernelStack, AllocateUserPages,
     EnableCpuFeatures, AllocateXsaveArea, OpenTheSaveFile, MaskInterrupts,
     RemapRuns, LoadTables, EnterUser, vars
<1> QED
  BY <1>2, <1>3, <1>4, <1>5

----------------------------------------------------------------------------
(* The refinement.                                                         *)
Translations == [p \in Page |-> Translate(p)]

Wanted ==
  IF request = NoRequest THEN NoRequest ELSE [page |-> request.page, target |-> Target]

LEMMA WantedSomething ==
  Typed => /\ Wanted = NoRequest <=> request = NoRequest
           /\ request # NoRequest => Wanted.page = request.page /\ Wanted.target = Target
<1> SUFFICES ASSUME Typed, request # NoRequest
             PROVE  /\ Wanted # NoRequest
                    /\ Wanted.page = request.page /\ Wanted.target = Target
  BY DEF Wanted
<1>1. request \in Request
  BY DEF Typed
<1>2. request.page \in Page /\ request.frame \in Nat
  BY <1>1, PageIsNat DEF Request
<1>3. Target \in Translation
  BY <1>2, PteProtType DEF Target, Translation, Rights
<1>4. Wanted = [page |-> request.page, target |-> Target]
  BY DEF Wanted
<1>5. Wanted \in [page : Page, target : Translation]
  BY <1>2, <1>3, <1>4
<1> QED
  BY <1>4, <1>5, AbsenceAssumption

LEMMA WantedSomethingNext ==
  Typed' => (Wanted' = NoRequest <=> request' = NoRequest)
<1>1. (Typed => (Wanted = NoRequest <=> request = NoRequest))'
  BY WantedSomething, PTL
<1> QED
  BY <1>1

LEMMA TranslationsKept ==
  ASSUME UNCHANGED <<entry, la57>> PROVE Translations' = Translations
BY TranslateKept, Zenon DEF Translations

LEMMA TargetKept == ASSUME UNCHANGED request PROVE Target' = Target /\ Wanted' = Wanted
<1>1. PteProt' = PteProt
  BY Zenon DEF PteProt
<1>2. Target' = Target
  BY <1>1, Zenon DEF Target
<1> QED
  BY <1>2, Zenon DEF Wanted

LEMMA StepRefines ==
  TableInv /\ TableInv' /\ [Next]_vars => [Space!SpaceNext]_<<Translations, Wanted>>
<1> SUFFICES ASSUME TableInv, TableInv', [Next]_vars
             PROVE  Space!SpaceNext \/ UNCHANGED <<Translations, Wanted>>
  OBVIOUS
<1>1. Typed /\ Typed' /\ WalkInv
  BY DEF TableInv
<1>2. CASE RemapUserPages
  <2>1. request = NoRequest /\ request' \in Request /\ UNCHANGED <<entry, la57>>
    BY <1>2, BeginKeeps
  <2>2. Wanted = NoRequest /\ Wanted' # NoRequest
    BY <1>1, <2>1, AbsenceAssumption, WantedSomething, WantedSomethingNext
  <2>3. Translations' = Translations
    BY <2>1, TranslationsKept
  <2> QED
    BY <2>2, <2>3, Zenon DEF Space!SpaceNext, Space!Ask, Translations, Wanted, Target
<1>3. CASE LinkTable \/ Descend
  <2>1. \A p \in Page : Space!AtLeast(Translate(p), Translate(p)')
    BY <1>1, <1>3, LinkWidens, DescendWidens
  <2>2. UNCHANGED request /\ remap_pc = "walk"
    BY <1>3 DEF LinkTable, Descend
  <2>3. Wanted # NoRequest /\ Wanted' = Wanted
    BY <1>1, <2>2, WantedSomething, TargetKept DEF Typed
  <2>4. \A p \in Page : Translations[p] = Translate(p) /\ Translations'[p] = Translate(p)'
    BY DEF Translations
  <2>5. \A p \in Page : Space!AtLeast(Translations[p], Translations'[p])
    BY <2>1, <2>4, Zenon
  <2> QED
    BY <2>3, <2>5, Zenon
       DEF Space!SpaceNext, Space!Widen, Space!NoneLoses, Translations, Wanted, Target
<1>4. CASE MapPage
  <2>1. PICK q \in Page : request.page = q
    BY <1>1, <1>4, RequestParts DEF MapPage
  <2>2. UNCHANGED request /\ request # NoRequest
    BY <1>1, <1>4 DEF MapPage, Typed
  <2>3. /\ Wanted # NoRequest /\ Wanted.page = q /\ Wanted.target = Target
        /\ Wanted' = Wanted
    BY <1>1, <2>1, <2>2, WantedSomething, TargetKept
  <2>4. Translate(q)' = Target /\ \A p \in Page \ {q} : Translate(p)' = Translate(p)
    BY <1>1, <1>4, <2>1, MapGrants, MapKeepsOthers
  <2>5. \A p \in Page : Translations[p] = Translate(p) /\ Translations'[p] = Translate(p)'
    BY DEF Translations
  <2>6. /\ Translations'[Wanted.page] = Wanted.target
        /\ \A p \in Page \ {Wanted.page} : Translations'[p] = Translations[p]
    BY <2>3, <2>4, <2>5
  <2> QED
    BY <2>3, <2>6, Zenon DEF Space!SpaceNext, Space!Grant, Translations, Wanted, Target
<1>5. CASE FlushTlb
  <2>1. UNCHANGED <<entry, la57, request>>
    BY <1>5 DEF FlushTlb
  <2> QED
    BY <2>1, TranslationsKept, TargetKept
<1>6. CASE RemapReturns \/ AllocationFails
  <2>1. /\ UNCHANGED <<entry, la57>> /\ request' = NoRequest
        /\ request # NoRequest
    BY <1>1, <1>6 DEF RemapReturns, AllocationFails, Typed
  <2>2. Wanted # NoRequest /\ Wanted' = NoRequest
    BY <1>1, <2>1, WantedSomething, WantedSomethingNext
  <2>3. Translations' = Translations
    BY <2>1, TranslationsKept
  <2> QED
    BY <2>2, <2>3, Zenon DEF Space!SpaceNext, Space!Answer, Translations, Wanted, Target
<1>7. CASE UNCHANGED remapVars
  <2>1. UNCHANGED <<entry, la57, request>>
    BY <1>7 DEF remapVars
  <2> QED
    BY <2>1, TranslationsKept, TargetKept
<1>8. RemapUserPages \/ RemapStep \/ UNCHANGED remapVars
  BY DEF Next, DetectCpu, InitPerfCounters, AllocateKernelStack, AllocateUserPages,
     EnableCpuFeatures, AllocateXsaveArea, OpenTheSaveFile, MaskInterrupts,
     RemapRuns, LoadTables, EnterUser, vars
<1> QED
  BY <1>2, <1>3, <1>4, <1>5, <1>6, <1>7, <1>8 DEF RemapStep

(* Remapping implements the abstract address space: whatever the tables,   *)
(* through splits, wider upper levels and failures, no other page changes  *)
(* its frame or loses a right, and the page itself changes once, to        *)
(* exactly what was asked for.                                             *)
THEOREM RemapImplementsSpace == Spec => ImplementsAddressSpace
<1>1. Init => Space!SpaceInit
  BY Zenon DEF Init, RemapInit, Space!SpaceInit
<1>2. TableInv /\ TableInv' /\ [Next]_vars => [Space!SpaceNext]_(Space!spaceVars)
  BY StepRefines DEF Space!spaceVars, Translations, Wanted, Target
<1> QED
  BY <1>1, <1>2, InitTableInv, NextTableInv, PTL DEF Spec, ImplementsAddressSpace,
     Space!SpaceSpec

----------------------------------------------------------------------------
(* The two pages of user code, once remap_page has mapped them.            *)
RwEntry ==
  [present |-> TRUE, size |-> FALSE, frame |-> user_code_page_rw,
   writable |-> TRUE, user |-> FALSE, nx |-> TRUE]

ExecEntry ==
  [present |-> TRUE, size |-> FALSE, frame |-> user_code_page_rw,
   writable |-> FALSE, user |-> TRUE, nx |-> FALSE]

(* The requests of the two calls.                                          *)
RwRequest ==
  [page |-> user_code_page_rw, frame |-> user_code_page_rw,
   prot |-> {"PROT_READ", "PROT_WRITE"}]

ExecRequest ==
  [page |-> user_code_page_for_exec, frame |-> user_code_page_rw,
   prot |-> {"PROT_READ", "PROT_EXEC", "PROT_USER"}]

(* The phases after both calls and after the first.                        *)
AfterExec == {"gdt", "segments", "idt", "nxe", "execute ud", "user"}
AfterRw == {"remap exec", "remapping exec"} \cup AfterExec

CallInv ==
  remap_pc # "idle" =>
    /\ status = "none"
    /\ \/ pc = "remapping rw" /\ request = RwRequest
       \/ pc = "remapping exec" /\ request = ExecRequest

Written == remap_pc \in {"mapped", "flushed"}

MappedInv ==
  /\ pc \in AfterRw \/ (pc = "remapping rw" /\ Written) =>
       Mapped(user_code_page_rw, RwEntry)
  /\ pc \in AfterExec \/ (pc = "remapping exec" /\ Written) =>
       Mapped(user_code_page_for_exec, ExecEntry)

(* Only one entry that maps memory lets user code in, once it is there.    *)
UserInv ==
  \A s \in Slot : (entry[s].size \/ s[1] = PT) /\ entry[s].user =>
    /\ s = <<PT, user_code_page_for_exec>>
    /\ pc \in {"remapping exec", "halted"} \cup AfterExec

(* Only one entry has a bit that is still reserved.                        *)
NxInv ==
  ~efer_nxe =>
    \A s \in Slot : entry[s].nx =>
      /\ s = <<PT, user_code_page_rw>>
      /\ pc \in {"remapping rw", "halted"} \cup AfterRw

(* A page that has its own entry keeps it while another page is remapped:  *)
(* the levels above it lead to tables already, and only gain.              *)
LEMMA WalkKeepsMapped ==
  ASSUME Typed, WalkInv, LinkTable \/ Descend, NEW p \in Page, NEW e, Mapped(p, e)
  PROVE  Mapped(p, e)'
<1>1. PICK n \in Level : n = i
  BY DEF Typed
<1>2. EntryOf(p, PT) = e /\ \A l \in Level : Root <= l /\ l < PT => Passes(EntryOf(p, l), e)
  BY DEF Mapped
<1>3. n < PT /\ Root <= n /\ PT \in Level
  BY <1>1 DEF LinkTable, Descend, WalkInv, Level, PML5, PT
<1>4. EntryOf(p, n).present /\ ~EntryOf(p, n).size
  BY <1>2, <1>3, Zenon DEF Passes
<1>5. CASE LinkTable
  <2>1. ~SameTable(p)
    BY <1>1, <1>4, <1>5, LinkEntries, Zenon
  <2>2. Root' = Root /\ \A l \in Level : EntryOf(p, l)' = EntryOf(p, l)
    BY <1>1, <1>5, <2>1, LinkEntries, Zenon
  <2> QED
    BY <1>2, <1>3, <2>2, Zenon DEF Mapped, Passes
<1>6. CASE Descend
  <2>1. /\ Root' = Root /\ n # PT
        /\ \A l \in Level : ~SameTable(p) \/ l # n => EntryOf(p, l)' = EntryOf(p, l)
        /\ SameTable(p) => EntryOf(p, n)' = WidenedPte(EntryOf(p, n))
    BY <1>1, <1>6, DescendEntries, Zenon
  <2>2. EntryOf(p, n) \in Entry
    BY EntryOfType
  <2>3. ASSUME SameTable(p) PROVE Passes(EntryOf(p, n)', e)
    <3> DEFINE before == EntryOf(p, n)
               now == EntryOf(p, n)'
    <3>1. now = WidenedPte(before)
      BY <2>1, <2>3
    <3>2. before \in Entry /\ Passes(before, e)
      BY <1>2, <1>3, <2>2
    <3> HIDE DEF before, now
    <3>3. /\ now.size <=> before.size
          /\ now.present <=> before.present
          /\ now.writable <=> before.writable \/ PteProt.writable
          /\ now.user <=> before.user \/ PteProt.user
          /\ now.nx => before.nx
      BY <3>1, <3>2, Widened, Zenon
    <3>4. Passes(now, e)
      BY <3>2, <3>3, Zenon DEF Passes
    <3> QED
      BY <3>4 DEF now
  <2>4. \A l \in Level : EntryOf(p, l)' = EntryOf(p, l) \/ (l = n /\ SameTable(p))
    BY <2>1, Zenon
  <2>5. EntryOf(p, PT)' = e
    BY <1>2, <1>3, <2>1, <2>4, Zenon
  <2>6. \A l \in Level : Root' <= l /\ l < PT => Passes(EntryOf(p, l)', e)
    <3> SUFFICES ASSUME NEW l \in Level, Root' <= l, l < PT
                 PROVE  Passes(EntryOf(p, l)', e)
      OBVIOUS
    <3>1. Passes(EntryOf(p, l), e)
      BY <1>2, <2>1, Zenon
    <3>2. CASE EntryOf(p, l)' = EntryOf(p, l)
      BY <3>1, <3>2, Zenon DEF Passes
    <3>3. CASE l = n /\ SameTable(p)
      BY <2>3, <3>3
    <3> QED
      BY <2>4, <3>2, <3>3
  <2> QED
    BY <2>5, <2>6, Zenon DEF Mapped, Passes
<1> QED
  BY <1>5, <1>6

LEMMA MapKeepsMapped ==
  ASSUME Typed, MapPage, NEW p \in Page, p # request.page, NEW e, Mapped(p, e)
  PROVE  Mapped(p, e)'
<1>1. Root' = Root /\ \A l \in Level : EntryOf(p, l)' = EntryOf(p, l)
  BY MapEntries, Zenon
<1>2. PT \in Level
  BY DEF Level, PML5, PT
<1> QED
  BY <1>1, <1>2, Zenon DEF Mapped, Passes

LEMMA TablesKeepMapped ==
  ASSUME UNCHANGED <<entry, la57>>, NEW p, NEW e, Mapped(p, e)
  PROVE  Mapped(p, e)'
BY Zenon DEF Mapped, Passes, EntryOf, Root

----------------------------------------------------------------------------
(* What the steps do to the entries of all tables.                         *)
LEMMA LinkSlots ==
  ASSUME Typed, LinkTable, NEW s \in Slot
  PROVE  \/ entry'[s] = entry[s]
         \/ s[1] # PT /\ ~entry'[s].size /\ ~entry'[s].nx
         \/ \E t \in Slot : /\ t[1] # PT
                            /\ entry'[s].user => entry[t].size /\ entry[t].user
                            /\ entry'[s].nx => entry[t].size /\ entry[t].nx
<1> DEFINE t == <<i, PtIndex(request.page, i)>>
           j == s[2] % Fanout
<1>1. t \in Slot /\ t[1] # PT
  <2>1. i \in Level /\ i # PT
    BY DEF LinkTable, Typed, Level, PML5, PT
  <2>2. request.page \in Page
    BY RequestParts DEF LinkTable
  <2> QED
    BY <2>1, <2>2, SlotOf
<1>2. CurPte = entry[t] /\ entry[t] \in Entry
  BY <1>1 DEF CurPte, EntryOf, Typed
<1>3. \/ s = t /\ entry'[s] = LinkedEntry
      \/ entry'[s] = ChildEntry(CurPte, j)
      \/ entry'[s] = entry[s]
  BY DEF LinkTable, LinkedEntry
<1> HIDE DEF t, j
<1>4. CASE s = t /\ entry'[s] = LinkedEntry
  BY <1>1, <1>4 DEF LinkedEntry
<1>5. CASE entry'[s] = ChildEntry(CurPte, j)
  <2>1. CASE CurPte.size
    <3>1. entry'[s].user = entry[t].user /\ entry'[s].nx = entry[t].nx
      BY <1>2, <1>5, <2>1 DEF ChildEntry, Entry
    <3>2. /\ entry'[s].user => entry[t].size /\ entry[t].user
          /\ entry'[s].nx => entry[t].size /\ entry[t].nx
      BY <1>2, <2>1, <3>1, Zenon
    <3> QED
      BY <1>1, <3>2, Zenon
  <2>2. CASE ~CurPte.size
    <3>1. ~entry'[s].user /\ ~entry'[s].nx
      BY <1>5, <2>2 DEF ChildEntry, Absent
    <3> QED
      BY <1>1, <3>1, Zenon
  <2> QED
    BY <2>1, <2>2
<1> QED
  BY <1>3, <1>4, <1>5

LEMMA DescendSlots ==
  ASSUME Typed, Descend, NEW s \in Slot
  PROVE  \/ entry'[s] = entry[s]
         \/ s[1] # PT /\ ~entry'[s].size /\ (entry'[s].nx => entry[s].nx)
<1> DEFINE t == <<i, PtIndex(request.page, i)>>
<1>1. t[1] # PT /\ CurPte = entry[t]
  BY DEF Descend, Typed, Level, PML5, PT, CurPte, EntryOf
<1>2. entry'[s] = IF s = t THEN WidenedPte(entry[s]) ELSE entry[s]
  BY DEF Descend, Typed
<1>3. CASE s = t
  <2>1. entry[s] \in Entry /\ ~entry[s].size
    BY <1>1, <1>3 DEF Typed, Descend, NeedsTable
  <2>2. entry'[s] = WidenedPte(entry[s]) /\ s[1] # PT
    BY <1>1, <1>2, <1>3
  <2> DEFINE before == entry[s]
             now == entry'[s]
  <2>3. /\ before \in Entry /\ ~before.size
        /\ now = WidenedPte(before)
    BY <2>1, <2>2
  <2> HIDE DEF before, now
  <2>4. (now.size <=> before.size) /\ (now.nx => before.nx)
    BY <2>3, Widened, Zenon
  <2> QED
    BY <2>2, <2>3, <2>4 DEF before, now
<1> QED
  BY <1>2, <1>3

LEMMA MapSlots ==
  ASSUME Typed, MapPage, NEW s \in Slot
  PROVE  \/ entry'[s] = entry[s]
         \/ s = <<PT, request.page>> /\ entry'[s] = PageEntry
BY DEF MapPage, Typed, PageEntry

(* What is asked for.                                                      *)
LEMMA RequestEntries ==
  /\ request = RwRequest => PageEntry = RwEntry
  /\ request = ExecRequest => PageEntry = ExecEntry
<1>1. ASSUME request = RwRequest PROVE PageEntry = RwEntry
  <2>1. /\ request.frame = user_code_page_rw
        /\ request.prot = {"PROT_READ", "PROT_WRITE"}
    BY <1>1 DEF RwRequest
  <2> DEFINE w == "PROT_WRITE" \in request.prot
             u == "PROT_USER" \in request.prot
             x == "PROT_EXEC" \notin request.prot
  <2>2. w = TRUE /\ u = FALSE /\ x = TRUE
    BY <2>1
  <2>3. PteProt = [writable |-> w, user |-> u, nx |-> x]
    BY Zenon DEF PteProt
  <2> HIDE DEF w, u, x
  <2>4. PteProt = [writable |-> TRUE, user |-> FALSE, nx |-> TRUE]
    BY <2>2, <2>3
  <2> QED
    BY <2>1, <2>4 DEF PageEntry, RwEntry
<1>2. ASSUME request = ExecRequest PROVE PageEntry = ExecEntry
  <2>1. /\ request.frame = user_code_page_rw
        /\ request.prot = {"PROT_READ", "PROT_EXEC", "PROT_USER"}
    BY <1>2 DEF ExecRequest
  <2> DEFINE w == "PROT_WRITE" \in request.prot
             u == "PROT_USER" \in request.prot
             x == "PROT_EXEC" \notin request.prot
  <2>2. w = FALSE /\ u = TRUE /\ x = FALSE
    BY <2>1
  <2>3. PteProt = [writable |-> w, user |-> u, nx |-> x]
    BY Zenon DEF PteProt
  <2> HIDE DEF w, u, x
  <2>4. PteProt = [writable |-> FALSE, user |-> TRUE, nx |-> FALSE]
    BY <2>2, <2>3
  <2> QED
    BY <2>1, <2>4 DEF PageEntry, ExecEntry
<1> QED
  BY <1>1, <1>2

----------------------------------------------------------------------------
(* The invariant.                                                          *)
NxeInv == pc \in {"execute ud", "user"} => efer_nxe

ReadyInv == CallInv /\ MappedInv /\ UserInv /\ NxInv /\ NxeInv

Phases == {"remapping rw", "halted"} \cup AfterRw

(* A step that leaves the tables alone, and the page of user code once it  *)
(* has been chosen.                                                        *)
LEMMA OutsideKeeps ==
  ASSUME ReadyInv, UNCHANGED <<entry, la57, efer_nxe>>,
         pc' \in Phases => pc \in Phases \cup {"remap rw"},
         pc \in Phases => UNCHANGED user_code_page_rw,
         pc' \in AfterRw \/ (pc' = "remapping rw" /\ Written') =>
           pc \in AfterRw \/ (pc = "remapping rw" /\ Written),
         pc' \in AfterExec \/ (pc' = "remapping exec" /\ Written') =>
           pc \in AfterExec \/ (pc = "remapping exec" /\ Written),
         pc \in {"remapping rw", "halted"} \cup AfterRw =>
           pc' \in {"remapping rw", "halted"} \cup AfterRw,
         pc \in {"remapping exec", "halted"} \cup AfterExec =>
           pc' \in {"remapping exec", "halted"} \cup AfterExec
  PROVE  MappedInv' /\ UserInv' /\ NxInv'
<1> USE DEF Phases
<1>1. UserInv'
  <2>1. \A s \in Slot : (entry[s].size \/ s[1] = PT) /\ entry[s].user =>
          /\ s = <<PT, user_code_page_for_exec>>
          /\ pc \in {"remapping exec", "halted"} \cup AfterExec
    BY DEF ReadyInv, UserInv
  <2>2. pc \in {"remapping exec", "halted"} \cup AfterExec =>
          user_code_page_for_exec' = user_code_page_for_exec
    BY DEF AfterRw, user_code_page_for_exec
  <2> HIDE DEF Phases
  <2> QED
    BY <2>1, <2>2, Zenon DEF UserInv
<1>2. NxInv'
  BY Zenon DEF ReadyInv, NxInv
<1>3. ASSUME pc' \in AfterRw \/ (pc' = "remapping rw" /\ Written')
      PROVE  Mapped(user_code_page_rw, RwEntry)'
  <2>1. /\ Mapped(user_code_page_rw, RwEntry)
        /\ user_code_page_rw' = user_code_page_rw
    BY <1>3, Zenon DEF ReadyInv, MappedInv
  <2>2. RwEntry' = RwEntry
    BY <2>1 DEF RwEntry
  <2> QED
    BY <2>1, <2>2, Zenon DEF Mapped, Passes, EntryOf, Root
<1>4. ASSUME pc' \in AfterExec \/ (pc' = "remapping exec" /\ Written')
      PROVE  Mapped(user_code_page_for_exec, ExecEntry)'
  <2>1. pc \in AfterExec \/ (pc = "remapping exec" /\ Written)
    BY <1>4, Zenon
  <2>2. /\ Mapped(user_code_page_for_exec, ExecEntry)
        /\ user_code_page_rw' = user_code_page_rw
    BY <2>1 DEF ReadyInv, MappedInv, AfterRw
  <2>3. ExecEntry' = ExecEntry /\ user_code_page_for_exec' = user_code_page_for_exec
    BY <2>2 DEF ExecEntry, user_code_page_for_exec
  <2> QED
    BY <2>2, <2>3, Zenon DEF Mapped, Passes, EntryOf, Root
<1> QED
  BY <1>1, <1>2, <1>3, <1>4, Zenon DEF MappedInv

LEMMA BootKeepsReady ==
  ASSUME ReadyInv,
         \/ DetectCpu \/ InitPerfCounters \/ AllocateKernelStack \/ AllocateUserPages
         \/ EnableCpuFeatures \/ AllocateXsaveArea \/ OpenTheSaveFile \/ MaskInterrupts
  PROVE  ReadyInv'
<1>1. /\ pc \notin Phases /\ pc \notin {"remapping exec"}
      /\ pc' \notin {"remapping rw"} \cup AfterRw
      /\ UNCHANGED <<remapVars, efer_nxe>>
  BY DEF Phases, AfterRw, AfterExec, DetectCpu, InitPerfCounters, AllocateKernelStack,
     AllocateUserPages, EnableCpuFeatures, AllocateXsaveArea, OpenTheSaveFile,
     MaskInterrupts, Halt
<1>2. UNCHANGED <<entry, la57, remap_pc>>
  BY <1>1 DEF remapVars
<1>3. CallInv' /\ NxeInv'
  BY <1>1, <1>2 DEF ReadyInv, CallInv, NxeInv, Phases, AfterRw, AfterExec
<1>4. MappedInv'
  BY <1>1 DEF MappedInv, AfterRw
<1>5. UserInv'
  BY <1>1, <1>2, Zenon DEF ReadyInv, UserInv, Phases, AfterRw
<1>6. NxInv'
  BY <1>1, <1>2, Zenon DEF ReadyInv, NxInv, Phases
<1> QED
  BY <1>3, <1>4, <1>5, <1>6 DEF ReadyInv

LEMMA BeginKeepsReady ==
  ASSUME ReadyInv, RemapUserPages
  PROVE  ReadyInv'
<1> USE DEF AfterRw, AfterExec
<1>1. /\ UNCHANGED <<entry, la57, efer_nxe, user_code_page_rw>>
      /\ remap_pc' = "walk" /\ status' = "none"
      /\ \/ pc = "remap rw" /\ pc' = "remapping rw" /\ request' = RwRequest
         \/ pc = "remap exec" /\ pc' = "remapping exec" /\ request' = ExecRequest
  BY DEF RemapUserPages, RemapBegin, RwRequest, ExecRequest
<1>2. RwRequest' = RwRequest /\ ExecRequest' = ExecRequest
  BY <1>1 DEF RwRequest, ExecRequest, user_code_page_for_exec
<1>3. CallInv' /\ NxeInv'
  BY <1>1, <1>2 DEF CallInv, NxeInv
<1>4. MappedInv' /\ UserInv' /\ NxInv'
  <2>1. ~Written'
    BY <1>1 DEF Written
  <2> QED
    BY <1>1, <2>1, OutsideKeeps DEF Phases
<1> QED
  BY <1>3, <1>4 DEF ReadyInv

LEMMA TablesKeepReady ==
  ASSUME ReadyInv, LoadTables \/ EnterUser
  PROVE  ReadyInv'
<1> USE DEF AfterRw, AfterExec
<1>1. /\ UNCHANGED <<remapVars, user_code_page_rw>>
      /\ pc \in AfterExec /\ pc' \in AfterExec /\ pc # "user"
      /\ \/ UNCHANGED efer_nxe /\ pc # "nxe"
         \/ pc' = "execute ud" /\ efer_nxe'
  BY DEF LoadTables, EnterUser
<1>2. UNCHANGED <<entry, la57, remap_pc>>
  BY <1>1 DEF remapVars
<1>3. CallInv'
  BY <1>1, <1>2 DEF ReadyInv, CallInv
<1>4. NxeInv'
  BY DEF ReadyInv, NxeInv, LoadTables, EnterUser
<1>5. CASE UNCHANGED efer_nxe
  <2>1. MappedInv' /\ UserInv' /\ NxInv'
    BY <1>1, <1>2, <1>5, OutsideKeeps DEF Phases, Written
  <2> QED
    BY <1>3, <1>4, <2>1 DEF ReadyInv
<1>6. CASE efer_nxe'
  <2>1. user_code_page_for_exec' = user_code_page_for_exec
        /\ RwEntry' = RwEntry /\ ExecEntry' = ExecEntry
    BY <1>1 DEF user_code_page_for_exec, RwEntry, ExecEntry
  <2>2. Mapped(user_code_page_rw, RwEntry) /\ Mapped(user_code_page_for_exec, ExecEntry)
    BY <1>1 DEF ReadyInv, MappedInv
  <2>3. /\ Mapped(user_code_page_rw, RwEntry)'
        /\ Mapped(user_code_page_for_exec, ExecEntry)'
    BY <1>1, <1>2, <2>1, <2>2, Zenon DEF Mapped, Passes, EntryOf, Root
  <2>4. UserInv'
    BY <1>1, <1>2, <2>1, Zenon DEF ReadyInv, UserInv
  <2>5. NxInv' /\ MappedInv'
    BY <1>6, <2>3 DEF NxInv, MappedInv
  <2> QED
    BY <1>3, <1>4, <2>4, <2>5 DEF ReadyInv
<1> QED
  BY <1>1, <1>5, <1>6

(* What is left when remap_page has answered or has only flushed.          *)
LEMMA EndKeepsReady ==
  ASSUME ReadyInv, RemapRuns, FlushTlb \/ RemapReturns \/ AllocationFails
  PROVE  ReadyInv'
<1> USE DEF AfterRw, AfterExec
<1>1. /\ UNCHANGED <<entry, la57, efer_nxe, user_code_page_rw>>
      /\ pc \in {"remapping rw", "remapping exec"} /\ remap_pc # "idle"
  BY DEF RemapRuns, FlushTlb, RemapReturns, AllocationFails
<1>2. CASE FlushTlb
  <2>1. /\ status' = "none" /\ UNCHANGED request
        /\ remap_pc = "mapped" /\ remap_pc' = "flushed"
    BY <1>1, <1>2 DEF FlushTlb, ReadyInv, CallInv
  <2>2. pc' = pc
    BY <2>1 DEF RemapRuns
  <2>3. RwRequest' = RwRequest /\ ExecRequest' = ExecRequest
    BY <1>1 DEF RwRequest, ExecRequest, user_code_page_for_exec
  <2>4. CallInv' /\ NxeInv'
    BY <1>1, <2>1, <2>2, <2>3 DEF ReadyInv, CallInv, NxeInv
  <2>5. MappedInv' /\ UserInv' /\ NxInv'
    BY <1>1, <2>1, <2>2, OutsideKeeps DEF Phases, Written
  <2> QED
    BY <2>4, <2>5 DEF ReadyInv
<1>3. CASE RemapReturns
  <2>1. status' = "EFI_SUCCESS" /\ remap_pc = "flushed" /\ remap_pc' = "idle"
    BY <1>3 DEF RemapReturns
  <2>2. \/ pc = "remapping rw" /\ pc' = "remap exec"
        \/ pc = "remapping exec" /\ pc' = "gdt"
    BY <1>1, <2>1 DEF RemapRuns
  <2>3. CallInv' /\ NxeInv'
    BY <2>1, <2>2 DEF CallInv, NxeInv
  <2>4. MappedInv' /\ UserInv' /\ NxInv'
    BY <1>1, <2>1, <2>2, OutsideKeeps DEF Phases, Written
  <2> QED
    BY <2>3, <2>4 DEF ReadyInv
<1>4. CASE AllocationFails
  <2>1. status' = "error" /\ remap_pc' = "idle"
    BY <1>4 DEF AllocationFails
  <2>2. pc' = "halted"
    BY <2>1 DEF RemapRuns
  <2>3. CallInv' /\ NxeInv'
    BY <2>1, <2>2 DEF CallInv, NxeInv
  <2>4. MappedInv' /\ UserInv' /\ NxInv'
    BY <1>1, <2>1, <2>2, OutsideKeeps DEF Phases, Written
  <2> QED
    BY <2>3, <2>4 DEF ReadyInv
<1> QED
  BY <1>2, <1>3, <1>4

LEMMA NextNumber == \A n \in Nat : n # n + 1
OBVIOUS

LEMMA CodePages ==
  ASSUME TableInv, pc \in {"remapping rw", "remapping exec"} \cup AfterRw
  PROVE  /\ user_code_page_rw \in Page /\ user_code_page_for_exec \in Page
         /\ user_code_page_rw # user_code_page_for_exec
<1>1. user_code_page_rw \in UserPage
  BY DEF TableInv, PageChosen, AfterRw, AfterExec
<1>2. user_code_page_rw \in Page /\ user_code_page_for_exec \in Page
  BY <1>1, BootAssumption DEF user_code_page_for_exec
<1>3. user_code_page_rw \in Nat
  BY <1>2, PageIsNat
<1>4. user_code_page_rw # user_code_page_for_exec
  BY <1>3, NextNumber, Zenon DEF user_code_page_for_exec
<1> QED
  BY <1>2, <1>4

(* The steps that write to the tables: one lemma for what is common.       *)
LEMMA WriteKeeps ==
  ASSUME ReadyInv, RemapRuns, LinkTable \/ Descend \/ MapPage
  PROVE  /\ UNCHANGED <<la57, request, status, efer_nxe, user_code_page_rw, pc>>
         /\ UNCHANGED <<user_code_page_for_exec, RwEntry, ExecEntry>>
         /\ remap_pc = "walk" /\ CallInv' /\ NxeInv'
         /\ \/ pc = "remapping rw" /\ request = RwRequest
            \/ pc = "remapping exec" /\ request = ExecRequest
<1>1. /\ UNCHANGED <<la57, request, status, efer_nxe, user_code_page_rw>>
      /\ remap_pc = "walk"
  BY DEF RemapRuns, LinkTable, Descend, MapPage
<1>2. /\ status = "none"
      /\ \/ pc = "remapping rw" /\ request = RwRequest
         \/ pc = "remapping exec" /\ request = ExecRequest
  BY <1>1 DEF ReadyInv, CallInv
<1>3. pc' = pc
  BY <1>1, <1>2 DEF RemapRuns
<1>4. /\ UNCHANGED <<user_code_page_for_exec, RwEntry, ExecEntry>>
      /\ RwRequest' = RwRequest /\ ExecRequest' = ExecRequest
  BY <1>1 DEF user_code_page_for_exec, RwEntry, ExecEntry, RwRequest, ExecRequest
<1>5. CallInv' /\ NxeInv'
  BY <1>1, <1>2, <1>3, <1>4 DEF CallInv, NxeInv
<1> QED
  BY <1>1, <1>2, <1>3, <1>4, <1>5

LEMMA WalkKeepsReady ==
  ASSUME TableInv, ReadyInv, RemapRuns, LinkTable \/ Descend
  PROVE  ReadyInv'
<1>1. /\ UNCHANGED <<efer_nxe, user_code_page_rw, pc>>
      /\ UNCHANGED <<user_code_page_for_exec, RwEntry, ExecEntry>>
      /\ CallInv' /\ NxeInv' /\ pc \in {"remapping rw", "remapping exec"}
      /\ remap_pc' = "walk"
  BY WriteKeeps DEF LinkTable, Descend
<1>2. Typed /\ WalkInv
  BY DEF TableInv
<1>3. MappedInv'
  <2>1. pc = "remapping exec" => Mapped(user_code_page_rw, RwEntry)
    BY DEF ReadyInv, MappedInv, AfterRw
  <2>2. ASSUME pc = "remapping exec" PROVE Mapped(user_code_page_rw, RwEntry)'
    <3>1. PICK p, e : /\ p \in Page
                      /\ user_code_page_rw = p /\ RwEntry = e
                      /\ user_code_page_rw' = p /\ RwEntry' = e
      BY <1>1, CodePages
    <3>2. Mapped(p, e)
      BY <2>1, <2>2, <3>1
    <3>3. Mapped(p, e)'
      BY <1>1, <1>2, <3>1, <3>2, WalkKeepsMapped
    <3> QED
      BY <3>1, <3>3, Zenon DEF Mapped, Passes, EntryOf, Root
  <2> QED
    BY <1>1, <2>2 DEF MappedInv, Written, AfterRw, AfterExec
<1>4. \A s \in Slot :
        \/ entry'[s] = entry[s]
        \/ s[1] # PT /\ ~entry'[s].size /\ (entry'[s].nx => entry[s].nx)
        \/ \E t \in Slot : /\ t[1] # PT
                           /\ entry'[s].user => entry[t].size /\ entry[t].user
                           /\ entry'[s].nx => entry[t].size /\ entry[t].nx
  BY <1>2, LinkSlots, DescendSlots, Zenon
<1>5. /\ \A t \in Slot : t[1] # PT => ~(entry[t].size /\ entry[t].user)
      /\ ~efer_nxe => \A t \in Slot : t[1] # PT => ~entry[t].nx
  <2>1. \A t, x : t = <<PT, x>> => t[1] = PT
    OBVIOUS
  <2>2. /\ UserInv /\ NxInv
    BY DEF ReadyInv
  <2> QED
    BY <2>1, <2>2, Zenon DEF UserInv, NxInv
<1>6. ASSUME NEW s \in Slot
      PROVE  /\ (entry'[s].size \/ s[1] = PT) /\ entry'[s].user =>
                   (entry[s].size \/ s[1] = PT) /\ entry[s].user
             /\ ~efer_nxe /\ entry'[s].nx => entry[s].nx
  <2>1. CASE entry'[s] = entry[s]
    BY <2>1, Zenon
  <2>2. CASE s[1] # PT /\ ~entry'[s].size /\ (entry'[s].nx => entry[s].nx)
    BY <2>2, Zenon
  <2>3. CASE \E t \in Slot : /\ t[1] # PT
                             /\ entry'[s].user => entry[t].size /\ entry[t].user
                             /\ entry'[s].nx => entry[t].size /\ entry[t].nx
    <3>1. PICK t \in Slot : /\ t[1] # PT
                            /\ entry'[s].user => entry[t].size /\ entry[t].user
                            /\ entry'[s].nx => entry[t].size /\ entry[t].nx
      BY <2>3
    <3>2. ~(entry[t].size /\ entry[t].user) /\ (~efer_nxe => ~entry[t].nx)
      BY <1>5, <3>1, Zenon
    <3> QED
      BY <3>1, <3>2, Zenon
  <2> QED
    BY <1>4, <2>1, <2>2, <2>3
<1>7. UserInv'
  BY <1>1, <1>6, Zenon DEF ReadyInv, UserInv
<1>8. NxInv'
  BY <1>1, <1>6, Zenon DEF ReadyInv, NxInv
<1> QED
  BY <1>1, <1>3, <1>7, <1>8 DEF ReadyInv

LEMMA MapKeepsReady ==
  ASSUME TableInv, ReadyInv, RemapRuns, MapPage
  PROVE  ReadyInv'
<1>1. /\ UNCHANGED <<efer_nxe, user_code_page_rw, pc>>
      /\ UNCHANGED <<user_code_page_for_exec, RwEntry, ExecEntry>>
      /\ CallInv' /\ NxeInv' /\ remap_pc' = "mapped"
  BY WriteKeeps DEF MapPage
<1>2. \/ /\ pc = "remapping rw" /\ request.page = user_code_page_rw
         /\ PageEntry = RwEntry
      \/ /\ pc = "remapping exec" /\ request.page = user_code_page_for_exec
         /\ PageEntry = ExecEntry
  <2>1. \/ pc = "remapping rw" /\ request = RwRequest
        \/ pc = "remapping exec" /\ request = ExecRequest
    BY WriteKeeps
  <2>2. /\ RwRequest.page = user_code_page_rw
        /\ ExecRequest.page = user_code_page_for_exec
    BY DEF RwRequest, ExecRequest
  <2> QED
    BY <2>1, <2>2, RequestEntries
<1>3. Typed /\ WalkInv
  BY DEF TableInv
<1>4. PICK p, q, e, x :
        /\ p \in Page /\ q \in Page
        /\ user_code_page_rw = p /\ user_code_page_rw' = p
        /\ user_code_page_for_exec = q /\ user_code_page_for_exec' = q
        /\ RwEntry = e /\ RwEntry' = e /\ ExecEntry = x /\ ExecEntry' = x /\ p # q
  <2>1. /\ user_code_page_rw \in Page /\ user_code_page_for_exec \in Page
        /\ user_code_page_rw # user_code_page_for_exec
    BY <1>2, CodePages
  <2> QED
    BY <1>1, <2>1
<1>5. Mapped(p, e)' /\ (pc = "remapping exec" => Mapped(q, x)')
  <2>1. CASE pc = "remapping rw"
    BY <1>2, <1>3, <1>4, <2>1, MapMaps
  <2>2. CASE pc = "remapping exec"
    <3>1. Mapped(p, e) /\ request.page = q /\ PageEntry = x
      BY <1>2, <1>4, <2>2 DEF ReadyInv, MappedInv, AfterRw
    <3>2. Mapped(p, e)'
      BY <1>3, <1>4, <3>1, MapKeepsMapped
    <3>3. Mapped(q, x)'
      BY <1>3, <1>4, <3>1, MapMaps
    <3> QED
      BY <3>2, <3>3
  <2> QED
    BY <1>2, <2>1, <2>2
<1>6. MappedInv'
  <2>1. Mapped(user_code_page_rw, RwEntry)'
    BY <1>4, <1>5, Zenon DEF Mapped, Passes, EntryOf, Root
  <2>2. pc = "remapping exec" => Mapped(user_code_page_for_exec, ExecEntry)'
    BY <1>4, <1>5, Zenon DEF Mapped, Passes, EntryOf, Root
  <2>3. pc' \in {"remapping rw", "remapping exec"} /\ pc' = pc
    BY <1>1, <1>2
  <2> QED
    BY <2>1, <2>2, <2>3 DEF MappedInv, AfterExec
<1>7. \A s \in Slot : entry'[s] = entry[s]
                     \/ (s = <<PT, request.page>> /\ entry'[s] = PageEntry)
  BY <1>3, MapSlots
<1>8. ~RwEntry.user /\ ~ExecEntry.nx
  BY DEF RwEntry, ExecEntry
<1>9. UserInv'
  <2>1. \A s \in Slot : (entry'[s].size \/ s[1] = PT) /\ entry'[s].user =>
          /\ s = <<PT, user_code_page_for_exec>>
          /\ pc \in {"remapping exec", "halted"} \cup AfterExec
    <3> SUFFICES ASSUME NEW s \in Slot, entry'[s].size \/ s[1] = PT, entry'[s].user
                 PROVE  /\ s = <<PT, user_code_page_for_exec>>
                        /\ pc \in {"remapping exec", "halted"} \cup AfterExec
      OBVIOUS
    <3>1. CASE entry'[s] = entry[s]
      BY <3>1, Zenon DEF ReadyInv, UserInv
    <3>2. CASE s = <<PT, request.page>> /\ entry'[s] = PageEntry
      <4>1. PageEntry = ExecEntry
        BY <1>2, <1>8, <3>2
      <4>2. pc = "remapping exec" /\ request.page = user_code_page_for_exec
        BY <1>2, <1>8, <3>2
      <4> QED
        BY <3>2, <4>2
    <3> QED
      BY <1>7, <3>1, <3>2
  <2> QED
    BY <1>1, <2>1, Zenon DEF UserInv
<1>10. NxInv'
  <2>1. ~efer_nxe => \A s \in Slot : entry'[s].nx =>
          /\ s = <<PT, user_code_page_rw>>
          /\ pc \in {"remapping rw", "halted"} \cup AfterRw
    <3> SUFFICES ASSUME ~efer_nxe, NEW s \in Slot, entry'[s].nx
                 PROVE  /\ s = <<PT, user_code_page_rw>>
                        /\ pc \in {"remapping rw", "halted"} \cup AfterRw
      OBVIOUS
    <3>1. CASE entry'[s] = entry[s]
      BY <3>1, Zenon DEF ReadyInv, NxInv
    <3>2. CASE s = <<PT, request.page>> /\ entry'[s] = PageEntry
      <4>1. pc = "remapping rw" /\ request.page = user_code_page_rw
        BY <1>2, <1>8, <3>2
      <4> QED
        BY <3>2, <4>1
    <3> QED
      BY <1>7, <3>1, <3>2
  <2> QED
    BY <1>1, <2>1, Zenon DEF NxInv
<1> QED
  BY <1>1, <1>6, <1>9, <1>10 DEF ReadyInv

LEMMA NextReadyInv == TableInv /\ ReadyInv /\ [Next]_vars => ReadyInv'
<1> SUFFICES ASSUME TableInv, ReadyInv, [Next]_vars PROVE ReadyInv'
  OBVIOUS
<1>1. CASE DetectCpu \/ InitPerfCounters \/ AllocateKernelStack \/ AllocateUserPages
           \/ EnableCpuFeatures \/ AllocateXsaveArea \/ OpenTheSaveFile
           \/ MaskInterrupts
  BY <1>1, BootKeepsReady
<1>2. CASE RemapUserPages
  BY <1>2, BeginKeepsReady
<1>3. CASE RemapRuns
  <2>1. RemapStep
    BY <1>3 DEF RemapRuns
  <2> QED
    BY <1>3, <2>1, WalkKeepsReady, MapKeepsReady, EndKeepsReady DEF RemapStep
<1>4. CASE LoadTables \/ EnterUser
  BY <1>4, TablesKeepReady
<1>5. CASE UNCHANGED vars
  <2>1. UNCHANGED <<entry, la57, efer_nxe, pc, user_code_page_rw, remap_pc, status, request>>
    BY <1>5 DEF vars, bootVars, remapVars
  <2>2. Written' = Written
    BY <2>1 DEF Written
  <2>3. MappedInv' /\ UserInv' /\ NxInv'
    BY <2>1, <2>2, OutsideKeeps DEF Phases, AfterRw, AfterExec
  <2>4. RwRequest' = RwRequest /\ ExecRequest' = ExecRequest
    BY <2>1 DEF RwRequest, ExecRequest, user_code_page_for_exec
  <2>5. CallInv' /\ NxeInv'
    BY <2>1, <2>4 DEF ReadyInv, CallInv, NxeInv
  <2> QED
    BY <2>3, <2>5 DEF ReadyInv
<1> QED
  BY <1>1, <1>2, <1>3, <1>4, <1>5 DEF Next

LEMMA InitReadyInv == Init => ReadyInv
<1> SUFFICES ASSUME Init PROVE ReadyInv
  OBVIOUS
<1>1. PICK f \in Firmwares : RemapInit(f) /\ efer_nxe = f.nxe
  BY DEF Init
<1>2. entry = FirmwareTables(f) /\ pc = "detect" /\ remap_pc = "idle"
  BY <1>1, Zenon DEF Init, RemapInit
<1>3. /\ f.upper \in Rights /\ f.leaf \in Rights /\ f.nxe \in BOOLEAN /\ ~f.leaf.user
      /\ ~f.nxe => ~f.upper.nx /\ ~f.leaf.nx
      /\ f.granularity \in [{PtIndex(p, PDPT) : p \in Page} -> {PDPT, PD, PT}]
  BY RemapAssumption
<1>4. ASSUME NEW s \in Slot
      PROVE  \/ s[1] # PT /\ ~entry[s].size /\ entry[s].nx = f.upper.nx
             \/ entry[s].user = f.leaf.user /\ entry[s].nx = f.leaf.nx
             \/ entry[s] = Absent
  <2> DEFINE l == s[1]
             region == IF l < PDPT THEN 0 ELSE (s[2] * Span(l)) \div Span(PDPT)
             last == f.granularity[region]
  <2>1. entry[s] =
          IF l < PDPT \/ l < last
          THEN [present |-> TRUE, size |-> FALSE, frame |-> 0,
                writable |-> f.upper.writable, user |-> f.upper.user, nx |-> f.upper.nx]
          ELSE IF l = last
          THEN [present |-> TRUE, size |-> l # PT, frame |-> s[2] * Span(l),
                writable |-> f.leaf.writable, user |-> f.leaf.user, nx |-> f.leaf.nx]
          ELSE Absent
    BY <1>2, Zenon DEF FirmwareTables
  <2>2. l \in Level /\ s[2] * Span(l) \in Page
    BY SlotParts
  <2>3. l >= PDPT => last \in {PDPT, PD, PT}
    <3>1. region \in {PtIndex(p, PDPT) : p \in Page} \/ l < PDPT
      BY <2>2 DEF PtIndex
    <3> HIDE DEF region
    <3> QED
      BY <1>3, <2>2, <3>1 DEF Level, PML5, PDPT, PD, PT
  <2> HIDE DEF last
  <2>4. CASE l < PDPT \/ l < last
    <3>1. l # PT
      BY <2>2, <2>3, <2>4 DEF Level, PML5, PDPT, PD, PT
    <3> QED
      BY <2>1, <2>4, <3>1
  <2>5. CASE ~(l < PDPT \/ l < last)
    BY <2>1, <2>5
  <2> QED
    BY <2>4, <2>5
<1>5. ASSUME NEW s \in Slot
      PROVE  /\ entry[s].size \/ s[1] = PT => ~entry[s].user
             /\ ~f.nxe => ~entry[s].nx
  <2>1. CASE s[1] # PT /\ ~entry[s].size /\ entry[s].nx = f.upper.nx
    BY <1>3, <2>1, Zenon
  <2>2. CASE entry[s].user = f.leaf.user /\ entry[s].nx = f.leaf.nx
    BY <1>3, <2>2, Zenon
  <2>3. CASE entry[s] = Absent
    BY <2>3 DEF Absent
  <2> QED
    BY <1>4, <2>1, <2>2, <2>3
<1>6. UserInv /\ NxInv
  BY <1>1, <1>5, Zenon DEF UserInv, NxInv
<1> QED
  BY <1>2, <1>6 DEF ReadyInv, CallInv, MappedInv, NxeInv, AfterRw, AfterExec

LEMMA ReadyInvariant == Spec => [](TableInv /\ ReadyInv)
BY InitTableInv, InitReadyInv, NextTableInv, NextReadyInv, PTL DEF Spec

(* What the walk of a page says of the entry it ends at.                   *)
LEMMA UserWalk ==
  ASSUME Typed, UserInv, NEW p \in Page, p # user_code_page_for_exec,
         Translate(p) # Unmapped
  PROVE  ~Translate(p).user
<1>1. PICK k \in Level : EndsAt(p, k)
  BY WalkEnds
<1>2. /\ k \in Root .. k /\ <<k, PtIndex(p, k)>> \in Slot
      /\ entry[<<k, PtIndex(p, k)>>] = EntryOf(p, k)
      /\ EntryOf(p, k).size \/ k = PT
  <2>1. k \in Root .. k
    BY <1>1, RootIsLevel DEF EndsAt, Level, PML5, PML4, PT
  <2>2. EntryOf(p, k).size \/ k = PT
    BY <1>1, Zenon DEF EndsAt
  <2> QED
    BY <2>1, <2>2, SlotOf DEF EntryOf
<1>3. <<k, PtIndex(p, k)>> # <<PT, user_code_page_for_exec>>
  <2>1. CASE k = PT
    <3>1. PtIndex(p, k) = p
      BY <2>1, LastIndex
    <3> QED
      BY <3>1
  <2>2. CASE k # PT
    BY <2>2
  <2> QED
    BY <2>1, <2>2
<1>4. <<k, PtIndex(p, k)>>[1] = k
  OBVIOUS
<1>5. ~EntryOf(p, k).user
  BY <1>2, <1>3, <1>4, Zenon DEF UserInv
<1> QED
  BY <1>1, <1>2, <1>5, WalkHasParts, Zenon DEF WalkParts

(* Whatever the firmware's tables, user mode is entered with the code page *)
(* writable at one address, executable by user code at the next and by     *)
(* neither otherwise, and with no other page open to user code.            *)
THEOREM UserPages == Spec => []UserPagesReady
<1>1. TableInv /\ ReadyInv => UserPagesReady
  <2> SUFFICES ASSUME TableInv, ReadyInv, pc \in {"execute ud", "user"}
               PROVE  UserPagesReady
    BY DEF UserPagesReady
  <2>1. /\ user_code_page_rw \in Page /\ user_code_page_for_exec \in Page
    BY CodePages DEF AfterRw, AfterExec
  <2>2. Mapped(user_code_page_rw, RwEntry) /\ Mapped(user_code_page_for_exec, ExecEntry)
    BY DEF ReadyInv, MappedInv, AfterRw, AfterExec
  <2>3. /\ RwEntry \in Entry /\ RwEntry.present
        /\ ExecEntry \in Entry /\ ExecEntry.present
    BY <2>1 DEF RwEntry, ExecEntry, Entry
  <2>4. Typed
    BY DEF TableInv
  <2>5. Translate(user_code_page_rw) =
          [frame |-> user_code_page_rw, writable |-> TRUE, user |-> FALSE,
           executable |-> FALSE]
    <3>1. Translate(user_code_page_rw) =
            [frame |-> RwEntry.frame, writable |-> RwEntry.writable,
             user |-> RwEntry.user, executable |-> ~RwEntry.nx]
      BY <2>1, <2>2, <2>3, <2>4, MappedTranslates, Zenon
    <3> DEFINE x == ~RwEntry.nx
    <3>2. RwEntry.nx = TRUE
      BY DEF RwEntry
    <3>3. x = FALSE
      BY <3>2
    <3> HIDE DEF x
    <3>4. /\ RwEntry.frame = user_code_page_rw /\ RwEntry.writable = TRUE
          /\ RwEntry.user = FALSE
      BY DEF RwEntry
    <3> QED
      BY <3>1, <3>3, <3>4, Zenon DEF x
  <2>6. Translate(user_code_page_for_exec) =
          [frame |-> user_code_page_rw, writable |-> FALSE, user |-> TRUE,
           executable |-> TRUE]
    <3>1. Translate(user_code_page_for_exec) =
            [frame |-> ExecEntry.frame, writable |-> ExecEntry.writable,
             user |-> ExecEntry.user, executable |-> ~ExecEntry.nx]
      BY <2>1, <2>2, <2>3, <2>4, MappedTranslates, Zenon
    <3> DEFINE x == ~ExecEntry.nx
    <3>2. ExecEntry.nx = FALSE
      BY DEF ExecEntry
    <3>3. x = TRUE
      BY <3>2
    <3> HIDE DEF x
    <3>4. /\ ExecEntry.frame = user_code_page_rw /\ ExecEntry.writable = FALSE
          /\ ExecEntry.user = TRUE
      BY DEF ExecEntry
    <3> QED
      BY <3>1, <3>3, <3>4, Zenon DEF x
  <2>7. \A p \in Page \ {user_code_page_for_exec} :
          Translate(p) # Unmapped => ~Translate(p).user
    BY <2>4, UserWalk DEF ReadyInv
  <2>8. efer_nxe
    BY DEF ReadyInv, NxeInv
  <2> QED
    BY <2>5, <2>6, <2>7, <2>8, Zenon DEF UserPagesReady
<1> QED
  BY <1>1, ReadyInvariant, PTL

(* Until EFER.NXE is set only the page nobody touches has a reserved bit.  *)
THEOREM NothingReserved == Spec => []NoReservedBits
<1>1. TableInv /\ ReadyInv => NoReservedBits
  <2> SUFFICES ASSUME NxInv, ~efer_nxe, NEW p \in Page, p # user_code_page_rw,
                      NEW l \in Path(p)
               PROVE  ~EntryOf(p, l).nx
    BY DEF NoReservedBits, ReadyInv
  <2>1. l \in Level
    BY RootIsLevel DEF Path, Level, PML5, PML4, PT
  <2>2. <<l, PtIndex(p, l)>> # <<PT, user_code_page_rw>>
    <3>1. CASE l = PT
      <4>1. PtIndex(p, l) = p
        BY <3>1, LastIndex
      <4> QED
        BY <4>1
    <3>2. CASE l # PT
      BY <3>2
    <3> QED
      BY <3>1, <3>2
  <2> QED
    BY <2>1, <2>2, SlotOf, Zenon DEF NxInv, EntryOf
<1> QED
  BY <1>1, ReadyInvariant, PTL

----------------------------------------------------------------------------
(* Types: what is not in TableInv.                                         *)
Phase == Ends \cup {"detect", "perf counters", "stack", "user pages", "features",
                   "xsave area", "save file", "mask", "remap rw",
                   "remapping rw", "remap exec", "remapping exec", "gdt",
                   "segments", "idt", "nxe", "execute ud"}

RemapRest ==
  /\ cr0_wp \in BOOLEAN /\ orig_cr0_wp \in BOOLEAN
  /\ remap_pc \in {"idle", "walk", "mapped", "flushed"}
  /\ status \in {"none", "EFI_SUCCESS", "error"}

BootRest ==
  /\ pc \in Phase
  /\ kernel_stack_pages \in StackPage \cup {NoPage}
  /\ user_code_page_rw \in UserPage \cup {NoPage}
  /\ pmu \in BOOLEAN /\ interrupts \in BOOLEAN /\ cr8_masks \in BOOLEAN
  /\ efer_nxe \in BOOLEAN
  /\ mc_banks \in 0 .. 15
  /\ cpu \in Cpu

LEMMA RemapRestKept == RemapRest /\ [Next]_vars => RemapRest'
<1> SUFFICES ASSUME RemapRest, [Next]_vars PROVE RemapRest'
  OBVIOUS
<1> USE DEF RemapRest
<1>1. CASE UNCHANGED remapVars
  BY <1>1 DEF remapVars
<1>2. ASSUME NEW page, NEW frame, NEW prot, RemapBegin(page, frame, prot)
      PROVE  RemapRest'
  BY <1>2 DEF RemapBegin
<1>3. CASE RemapStep
  BY <1>3 DEF RemapStep, LinkTable, Descend, MapPage, FlushTlb, RemapReturns,
              AllocationFails
<1> QED
  BY <1>1, <1>2, <1>3, RemapSteps

LEMMA OpenTypeKept == OpenTypeOK /\ [Next]_vars => OpenTypeOK'
<1> SUFFICES ASSUME OpenTypeOK, [Next]_vars PROVE OpenTypeOK'
  OBVIOUS
<1> USE DEF OpenTypeOK
<1>1. CASE UNCHANGED openVars
  BY <1>1 DEF openVars
<1>2. CASE OpenBegin
  BY <1>2 DEF OpenBegin, GoesOn
<1>3. CASE OpenStep
  <2> USE DEF Holdable, GoesOn, OpenReturns
  <2>1. CASE OpenLoadedImage \/ CloseLoadedImage \/ OpenFileSystem \/ OpenVolume
    BY <2>1 DEF OpenLoadedImage, CloseLoadedImage, OpenFileSystem, OpenVolume
  <2>2. CASE OpenFile \/ GetInfoSize \/ AllocateInfo
    BY <2>2 DEF OpenFile, GetInfoSize, AllocateInfo
  <2>3. CASE GetInfo \/ SetInfo \/ FreeInfo
    BY <2>3 DEF GetInfo, SetInfo, FreeInfo
  <2> QED
    BY <1>3, <2>1, <2>2, <2>3 DEF OpenStep
<1>4. OpenBegin \/ OpenStep \/ UNCHANGED openVars
  BY DEF Next, DetectCpu, InitPerfCounters, AllocateKernelStack, AllocateUserPages,
     EnableCpuFeatures, AllocateXsaveArea, OpenTheSaveFile, MaskInterrupts,
     RemapUserPages, RemapRuns, LoadTables, EnterUser, vars, openVars
<1> QED
  BY <1>1, <1>2, <1>3, <1>4

LEMMA NoBanks == 0 \in 0 .. 15
  OBVIOUS

LEMMA BanksMasked == \A c \in Cpu : c.banks % 16 \in 0 .. 15
<1> SUFFICES ASSUME NEW c \in Cpu PROVE c.banks % 16 \in 0 .. 15
  OBVIOUS
<1>1. c.banks \in 0 .. 255
  BY BootAssumption, Zenon
<1> DEFINE b == c.banks
<1>2. b \in Nat
  BY <1>1
<1> HIDE DEF b
<1>3. b % 16 \in 0 .. 15
  BY <1>2
<1> QED
  BY <1>3 DEF b

LEMMA BootRestKept == BootRest /\ [Next]_vars => BootRest'
<1> SUFFICES ASSUME BootRest, [Next]_vars PROVE BootRest'
  OBVIOUS
<1> USE DEF BootRest, Phase, Ends, CallsFirmware, Halt
<1>1. CASE DetectCpu \/ InitPerfCounters
  BY <1>1 DEF DetectCpu, InitPerfCounters
<1>2. CASE AllocateKernelStack \/ AllocateUserPages
  BY <1>2 DEF AllocateKernelStack, AllocateUserPages
<1>3. CASE EnableCpuFeatures
  <2>1. mc_banks' \in 0 .. 15
    <3>1. cpu \in Cpu /\ mc_banks \in 0 .. 15
      BY Zenon
    <3>2. cpu.banks % 16 \in 0 .. 15
      BY <3>1, BanksMasked, Zenon
    <3>3. mc_banks' = cpu.banks % 16 \/ mc_banks' = 0
      BY <1>3, Zenon DEF EnableCpuFeatures
    <3> QED
      BY <3>2, <3>3, NoBanks, Zenon
  <2> QED
    BY <1>3, <2>1 DEF EnableCpuFeatures
<1>4. CASE AllocateXsaveArea \/ OpenTheSaveFile \/ MaskInterrupts
  BY <1>4 DEF AllocateXsaveArea, OpenTheSaveFile, MaskInterrupts
<1>5. CASE RemapUserPages \/ RemapRuns
  BY <1>5 DEF RemapUserPages, RemapRuns
<1>6. CASE LoadTables \/ EnterUser
  BY <1>6 DEF LoadTables, EnterUser
<1>7. CASE UNCHANGED vars
  BY <1>7 DEF vars, bootVars
<1> QED
  BY <1>1, <1>2, <1>3, <1>4, <1>5, <1>6, <1>7 DEF Next

(* Every variable of the boot sequence has its type.                       *)
THEOREM BootTypes == Spec => []BootTypeOK
<1>1. Init => RemapRest
  BY DEF Init, RemapInit, RemapRest
<1>2. Init => OpenTypeOK
  BY DEF Init, OpenInit, OpenTypeOK
<1>3. Init => BootRest
  <2> SUFFICES ASSUME Init PROVE BootRest
    OBVIOUS
  <2>1. efer_nxe \in BOOLEAN
    BY RemapAssumption, Zenon DEF Init
  <2>2. pc \in Phase
    BY DEF Init, Phase
  <2>3. mc_banks \in 0 .. 15
    BY DEF Init
  <2> QED
    BY <2>1, <2>2, <2>3, Zenon DEF Init, BootRest
<1>4. TableInv /\ RemapRest /\ OpenTypeOK /\ BootRest => BootTypeOK
  BY Zenon DEF TableInv, Typed, TablesOK, RemapRest, BootRest, BootTypeOK, RemapTypeOK, Phase
<1> QED
  BY <1>1, <1>2, <1>3, <1>4, InitTableInv, NextTableInv, RemapRestKept, OpenTypeKept,
     BootRestKept, PTL DEF Spec
=============================================================================
