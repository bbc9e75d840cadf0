--------------------------- MODULE RuntimeProofs ---------------------------
(***************************************************************************)
(* Theorems about the console and the string functions, for every console, *)
(* every text and buffer, and memory of any size.                          *)
(***************************************************************************)
EXTENDS Console, Strings, NumberInduction, SequenceTheorems

----------------------------------------------------------------------------
(* print_init: the modes before current_mode were asked, all of them but 1 *)
(* exist, and selected_mode is the largest of them.                        *)
ModesAsked ==
  \A k \in 0 .. current_mode - 1 :
    (k # 1 => QueryMode(k) # Fails) /\ QueryMode(k) <= max_area

LargestAsked ==
  IF max_area = 0 THEN selected_mode = 0
  ELSE selected_mode \in 0 .. current_mode - 1 /\ QueryMode(selected_mode) = max_area

ModeInv ==
  /\ modes \in Modes
  /\ max_area \in Nat /\ current_mode \in Nat
  /\ ModesAsked
  /\ LargestAsked
  /\ init_pc = "set" => QueryMode(current_mode) = Fails /\ current_mode # 1

LEMMA Areas ==
  modes \in Modes => \A k \in Nat : QueryMode(k) \in Nat \cup {Fails}
BY ModesAssumption DEF QueryMode

LEMMA ModeInvInit == ConsoleInit => ModeInv
BY DEF ConsoleInit, ModeInv, ModesAsked, LargestAsked

LEMMA ModeInvStep == ModeInv /\ [ConsoleNext]_consoleVars => ModeInv'
<1> SUFFICES ASSUME ModeInv, [ConsoleNext]_consoleVars PROVE ModeInv'
  OBVIOUS
<1>1. CASE SelectMode
  <2>1. modes' = modes /\ \A k : QueryMode(k)' = QueryMode(k)
    BY <1>1 DEF SelectMode, QueryMode
  <2>2. CASE QueryMode(current_mode) = Fails /\ current_mode # 1
    BY <1>1, <2>1, <2>2 DEF SelectMode, ModeInv, ModesAsked, LargestAsked
  <2>3. CASE ~(QueryMode(current_mode) = Fails /\ current_mode # 1)
    <3>1. QueryMode(current_mode) \in Nat \cup {Fails}
      BY Areas DEF ModeInv
    <3>2. current_mode' = current_mode + 1 /\ init_pc' = "query"
      BY <1>1, <2>3 DEF SelectMode
    <3>3. CASE QueryMode(current_mode) > max_area
      <4>1. max_area' = QueryMode(current_mode) /\ selected_mode' = current_mode
        BY <1>1, <2>3, <3>3 DEF SelectMode
      <4>2. max_area' \in Nat /\ max_area' # 0
        BY <3>1, <3>3, <4>1 DEF ModeInv, Fails
      <4>3. ModesAsked'
        BY <2>1, <2>3, <3>1, <3>2, <3>3, <4>1, <4>2, Areas DEF ModeInv, ModesAsked, Fails
      <4>4. LargestAsked'
        BY <2>1, <3>2, <4>1, <4>2 DEF ModeInv, LargestAsked
      <4> QED
        BY <2>1, <3>2, <4>2, <4>3, <4>4 DEF ModeInv
    <3>4. CASE ~(QueryMode(current_mode) > max_area)
      <4>1. max_area' = max_area /\ selected_mode' = selected_mode
        BY <1>1, <2>3, <3>4 DEF SelectMode
      <4>2. ModesAsked'
        BY <2>1, <2>3, <3>1, <3>2, <3>4, <4>1 DEF ModeInv, ModesAsked, Fails
      <4>3. LargestAsked'
        BY <2>1, <3>2, <4>1 DEF ModeInv, LargestAsked
      <4> QED
        BY <2>1, <3>2, <4>1, <4>2, <4>3 DEF ModeInv
    <3> QED
      BY <3>3, <3>4
  <2> QED
    BY <2>2, <2>3
<1>2. CASE Format \/ UNCHANGED consoleVars
  <2>1. UNCHANGED modeVars
    BY <1>2 DEF Format, consoleVars
  <2> QED
    BY <2>1 DEF modeVars, ModeInv, ModesAsked, LargestAsked, QueryMode
<1> QED
  BY <1>1, <1>2 DEF ConsoleNext

LEMMA ModeInvSuffices == ModeInv => LargestMode
<1> SUFFICES ASSUME ModeInv, init_pc = "set" PROVE LargestMode
  BY DEF LargestMode
<1> DEFINE listed == {m \in DOMAIN modes : \A k \in (0 .. m) \ {1} : QueryMode(k) # Fails}
           existing == {m \in listed : QueryMode(m) # Fails}
<1>1. DOMAIN modes \subseteq Nat
  BY ModesAssumption DEF ModeInv
<1>2. \A k \in Nat : QueryMode(k) \in Nat \cup {Fails}
  BY Areas DEF ModeInv
<1>3. current_mode \in Nat /\ QueryMode(current_mode) = Fails /\ current_mode # 1
  BY DEF ModeInv
(* A mode that exists and is listed was asked.                             *)
<1>4. ASSUME NEW m \in existing PROVE m \in 0 .. current_mode - 1
  <2>1. m \in Nat /\ current_mode \notin (0 .. m) \ {1}
    BY <1>1, <1>3, <1>4
  <2> QED
    BY <1>3, <2>1
<1>5. ASSUME NEW m \in existing PROVE QueryMode(m) <= max_area
  BY <1>4, <1>5 DEF ModeInv, ModesAsked
<1>6. ASSUME existing # {}
      PROVE  selected_mode \in existing /\ QueryMode(selected_mode) >= max_area
  <2>1. PICK m \in existing : TRUE
    BY <1>6
  <2>2. m \in 0 .. current_mode - 1
    BY <1>4
  <2>3. selected_mode \in 0 .. current_mode - 1 /\ QueryMode(selected_mode) # Fails
        /\ QueryMode(selected_mode) >= max_area
    <3>1. CASE max_area = 0
      <4>1. 0 \in 0 .. current_mode - 1 /\ selected_mode = 0
        BY <1>3, <2>2, <3>1 DEF ModeInv, LargestAsked
      <4>2. QueryMode(0) \in Nat
        BY <1>2, <4>1 DEF ModeInv, ModesAsked
      <4> QED
        BY <3>1, <4>1, <4>2 DEF Fails
    <3>2. CASE max_area # 0
      BY <3>2 DEF ModeInv, LargestAsked, Fails
    <3> QED
      BY <3>1, <3>2
  <2>4. selected_mode \in DOMAIN modes
    BY <2>3 DEF QueryMode
  <2>5. \A k \in (0 .. selected_mode) \ {1} : QueryMode(k) # Fails
    BY <1>3, <2>3 DEF ModeInv, ModesAsked
  <2> QED
    BY <2>3, <2>4, <2>5
<1>7. \A m \in existing : QueryMode(m) <= QueryMode(selected_mode)
  <2> SUFFICES ASSUME NEW m \in existing PROVE QueryMode(m) <= QueryMode(selected_mode)
    OBVIOUS
  <2>1. m \in Nat /\ QueryMode(m) \in Nat \cup {Fails} /\ QueryMode(m) <= max_area
    BY <1>1, <1>2, <1>5
  <2>2. QueryMode(selected_mode) \in Nat \cup {Fails} /\ QueryMode(selected_mode) >= max_area
    <3>1. selected_mode \in Nat
      BY <1>1, <1>6
    <3> QED
      BY <1>2, <1>6, <3>1
  <2> QED
    BY <2>1, <2>2 DEF ModeInv, Fails
<1>8. existing # {} => selected_mode \in existing
  BY <1>6
<1> QED
  <2> HIDE DEF existing
  <2> QED
    BY <1>7, <1>8 DEF LargestMode, existing

(* print_init sets a mode the console has, if it has any, and none that it *)
(* lists is larger, whatever modes the firmware has and whichever is       *)
(* missing.                                                                *)
THEOREM LargestModeIsSet == ConsoleSpec => []LargestMode
<1>1. ConsoleInit => ModeInv
  BY ModeInvInit
<1>2. ModeInv /\ [ConsoleNext]_consoleVars => ModeInv'
  BY ModeInvStep
<1>3. ModeInv => LargestMode
  BY ModeInvSuffices
<1> QED
  BY <1>1, <1>2, <1>3, PTL DEF ConsoleSpec

----------------------------------------------------------------------------
(* string.c: what the loops compute, as the first position that ends them. *)
LEMMA PositionRange ==
  ASSUME NEW k \in Position
  PROVE  Cells \in Nat \ {0} /\ Position = 0 .. Cells - 1 /\ Cells - 1 \in Nat
         /\ k \in Nat /\ k <= Cells - 1
BY MemoryAssumption DEF Position

(* The first position of Stop where a loop of that form ends.              *)
LEMMA LoopValue ==
  ASSUME NEW Stop, Stop \subseteq Position, NEW last \in Stop, NEW g,
         \A k \in Position : k >= last => k \in Stop,
         NEW m \in Stop, \A k \in 0 .. m - 1 : k \notin Stop,
         NEW f, f = CHOOSE h : IsScan(h, Cells - 1, Stop, g)
  PROVE  f[0] = g[m]
<1>1. last \in Position /\ Cells - 1 \in Nat /\ Position = 0 .. Cells - 1
  BY PositionRange
<1>2. Cells - 1 \in Stop /\ Stop \subseteq 0 .. Cells - 1
  BY <1>1
<1>3. \E h : IsScan(h, Cells - 1, Stop, g)
  BY <1>1, <1>2, ScanExists, Zenon
<1>4. IsScan(f, Cells - 1, Stop, g)
  BY <1>3, Zenon
<1>5. ScanEnds(f, Cells - 1, Stop, g, m)
  BY <1>2, <1>4 DEF ScanEnds
<1> QED
  BY <1>1, <1>5, ScanValue

(* A string in the memory ends at the first 0.                             *)
Terminated(s) == s \in Memory /\ \E k \in Position : s[k] = 0

LEMMA StringEnds ==
  ASSUME NEW s, Terminated(s)
  PROVE  \E n \in Position : IsString(s, n)
<1> DEFINE Ends == {k \in Position : s[k] = 0}
<1>1. Ends # {} /\ Ends \in SUBSET Nat
  BY PositionRange DEF Terminated
<1>2. \E m \in Ends : \A k \in Ends : m <= k
  <2> HIDE DEF Ends
  <2> QED
    BY <1>1, LeastNumber
<1>3. PICK m \in Ends : \A k \in Ends : m <= k
  BY <1>2
<1>4. ASSUME NEW k \in 0 .. m - 1 PROVE s[k] # 0
  <2>1. k \in Position
    BY PositionRange
  <2> QED
    BY <1>3, <2>1
<1> QED
  BY <1>4 DEF IsString

LEMMA StrlenValue ==
  ASSUME NEW s \in Memory, NEW n \in Position, IsString(s, n)
  PROVE  strlen(s) = n
<1> DEFINE Stop == {k \in Position : s[k] = 0 \/ LastCell(k)}
           g == [k \in Position |-> k]
           from[k \in Position] == IF s[k] = 0 \/ LastCell(k) THEN k ELSE from[k + 1]
<1>1. strlen(s) = from[0]
  BY DEF strlen
<1>2. from = CHOOSE h : IsScan(h, Cells - 1, Stop, g)
  <2>1. \A h : IsScan(h, Cells - 1, Stop, g)
               <=> h = [k \in Position |-> IF s[k] = 0 \/ LastCell(k) THEN k ELSE h[k + 1]]
    BY DEF IsScan, Position
  <2> HIDE DEF Stop, g
  <2> QED
    BY <2>1
<1>3. n \in Stop /\ \A k \in 0 .. n - 1 : k \notin Stop
  BY PositionRange DEF IsString, LastCell
<1>4. Cells - 1 \in Stop /\ \A k \in Position : k >= Cells - 1 => k \in Stop
  BY PositionRange DEF LastCell
<1>5. from[0] = g[n]
  <2>1. Stop \subseteq Position
    OBVIOUS
  <2> HIDE DEF Stop, g, from
  <2> QED
    BY <1>2, <1>3, <1>4, <2>1, LoopValue
<1> QED
  BY <1>1, <1>5

(* Signed keeps bytes apart, and their order within a half.                *)
LEMMA SignedOrder ==
  ASSUME NEW x \in 0 .. 255, NEW y \in 0 .. 255, x # y
  PROVE  /\ Signed(x) - Signed(y) # 0
         /\ (x < 128 <=> y < 128) => Sign(Signed(x) - Signed(y)) = Sign(x - y)
BY DEF Signed, Sign

(* Where strcmp's loop ends: at the first difference or the end of dst.    *)
Decides(k) ==
  /\ dst[k] = 0 \/ dst[k] # src[k]
  /\ \A j \in 0 .. k - 1 : dst[j] # 0 /\ dst[j] = src[j]

LEMMA StrcmpValue ==
  ASSUME NEW k \in Position, Decides(k)
  PROVE  strcmp = Signed(dst[k]) - Signed(src[k])
<1> DEFINE Stop == {j \in Position : ~(dst[j] # 0 /\ dst[j] = src[j] /\ ~LastCell(j))}
           g == [j \in Position |-> Signed(dst[j]) - Signed(src[j])]
           from[j \in Position] ==
             IF dst[j] # 0 /\ dst[j] = src[j] /\ ~LastCell(j) THEN from[j + 1]
             ELSE Signed(dst[j]) - Signed(src[j])
<1>1. strcmp = from[0]
  BY DEF strcmp
<1>2. from = CHOOSE h : IsScan(h, Cells - 1, Stop, g)
  <2>1. \A h : IsScan(h, Cells - 1, Stop, g)
               <=> h = [j \in Position |->
                          IF dst[j] # 0 /\ dst[j] = src[j] /\ ~LastCell(j) THEN h[j + 1]
                          ELSE Signed(dst[j]) - Signed(src[j])]
    BY DEF IsScan, Position
  <2> HIDE DEF Stop, g
  <2> QED
    BY <2>1
<1>3. k \in Stop /\ \A j \in 0 .. k - 1 : j \notin Stop
  BY PositionRange DEF LastCell, Decides
<1>4. Cells - 1 \in Stop /\ \A j \in Position : j >= Cells - 1 => j \in Stop
  BY PositionRange DEF LastCell
<1>5. from[0] = g[k]
  <2>1. Stop \subseteq Position
    OBVIOUS
  <2> HIDE DEF Stop, g, from
  <2> QED
    BY <1>2, <1>3, <1>4, <2>1, LoopValue
<1> QED
  BY <1>1, <1>5

LEMMA MemcmpValue ==
  ASSUME NEW k \in Position, FirstDifference(k), size \in Position, k < size
  PROVE  memcmp = dst[k] - src[k]
<1> DEFINE Stop == {j \in Position : ~(j < size /\ dst[j] = src[j])}
           g == [j \in Position |-> dst[j] - src[j]]
           from[j \in Position] ==
             IF j < size /\ dst[j] = src[j] THEN from[j + 1] ELSE dst[j] - src[j]
<1>1. memcmp = from[0]
  <2>1. size # 0
    BY PositionRange
  <2> HIDE DEF from
  <2> QED
    BY <2>1 DEF memcmp, from
<1>2. from = CHOOSE h : IsScan(h, Cells - 1, Stop, g)
  <2>1. \A h : IsScan(h, Cells - 1, Stop, g)
               <=> h = [j \in Position |->
                          IF j < size /\ dst[j] = src[j] THEN h[j + 1] ELSE dst[j] - src[j]]
    BY DEF IsScan, Position
  <2> HIDE DEF Stop, g
  <2> QED
    BY <2>1
<1>3. k \in Stop /\ \A j \in 0 .. k - 1 : j \notin Stop
  BY PositionRange DEF FirstDifference
<1>4. Cells - 1 \in Stop /\ \A j \in Position : j >= Cells - 1 => j \in Stop
  BY PositionRange
<1>5. from[0] = g[k]
  <2>1. Stop \subseteq Position
    OBVIOUS
  <2> HIDE DEF Stop, g, from
  <2> QED
    BY <1>2, <1>3, <1>4, <2>1, LoopValue
<1> QED
  BY <1>1, <1>5

LEMMA CopiedValue ==
  ASSUME NEW limit \in Position, NEW n \in Position, IsString(src, n)
  PROVE  Copied(limit) = IF limit < n THEN limit ELSE n
<1> DEFINE m == IF limit < n THEN limit ELSE n
           Stop == {j \in Position : ~(j < limit /\ src[j] # 0)}
           g == [j \in Position |-> j]
           from[j \in Position] == IF j < limit /\ src[j] # 0 THEN from[j + 1] ELSE j
<1>1. Copied(limit) = from[0]
  BY DEF Copied
<1>2. from = CHOOSE h : IsScan(h, Cells - 1, Stop, g)
  <2>1. \A h : IsScan(h, Cells - 1, Stop, g)
               <=> h = [j \in Position |-> IF j < limit /\ src[j] # 0 THEN h[j + 1] ELSE j]
    BY DEF IsScan, Position
  <2> HIDE DEF Stop, g
  <2> QED
    BY <2>1
<1>3. m \in Stop /\ \A j \in 0 .. m - 1 : j \notin Stop
  BY PositionRange DEF IsString
<1>4. Cells - 1 \in Stop /\ \A j \in Position : j >= Cells - 1 => j \in Stop
  BY PositionRange
<1>5. from[0] = g[m]
  <2>1. Stop \subseteq Position
    OBVIOUS
  <2> HIDE DEF Stop, g, from, m
  <2> QED
    BY <1>2, <1>3, <1>4, <2>1, LoopValue
<1> QED
  BY <1>1, <1>3, <1>5

(* The two strings of a call, which fit the memory together.               *)
StringCall(nd, ns) ==
  /\ dst \in Memory /\ src \in Memory /\ size \in Position /\ dest_size \in Position
  /\ dest_size \in Position
  /\ nd \in Position /\ ns \in Position /\ nd + ns < Cells
  /\ IsString(dst, nd) /\ IsString(src, ns)

LEMMA EndedValue ==
  ASSUME NEW nd, NEW ns, StringCall(nd, ns), NEW count \in 0 .. ns
  PROVE  /\ Concatenated(Ended(count), count)
         /\ \A k \in Position : k > nd + count => Ended(count)[k] = dst[k]
         /\ Ended(count)[nd + count] = 0
<1>0. PICK now : now = Ended(count)
  OBVIOUS
<1>1. strlen(dst) = nd
  BY StrlenValue DEF StringCall
<1>2. /\ Cells \in Nat \ {0} /\ Position = 0 .. Cells - 1
      /\ nd \in Nat /\ ns \in Nat /\ count \in Nat /\ nd + count < Cells /\ count <= ns
  BY PositionRange DEF StringCall
<1>3. \A k \in Position :
        now[k] = IF k = nd + count THEN 0
                 ELSE IF k \in nd .. nd + count - 1 THEN src[k - nd] ELSE dst[k]
  BY <1>0, <1>1, <1>2 DEF Ended, Behind
<1>4. now[nd + count] = 0 /\ nd + count \in Position
  BY <1>2, <1>3
<1>5. ASSUME NEW k \in 0 .. nd - 1 PROVE now[k] = dst[k] /\ now[k] # 0
  <2>1. k \in Position /\ k # nd + count /\ k \notin nd .. nd + count - 1
    BY <1>2
  <2>2. now[k] = dst[k]
    BY <1>3, <2>1
  <2> QED
    BY <2>2 DEF StringCall, IsString
<1>6. ASSUME NEW k \in 0 .. count - 1 PROVE now[nd + k] = src[k] /\ now[nd + k] # 0
  <2>1. nd + k \in Position /\ nd + k # nd + count /\ nd + k \in nd .. nd + count - 1
        /\ (nd + k) - nd = k /\ k \in 0 .. ns - 1
    BY <1>2
  <2>2. now[nd + k] = src[k]
    BY <1>3, <2>1
  <2> QED
    BY <2>1, <2>2 DEF StringCall, IsString
<1>7. ASSUME NEW k \in 0 .. nd + count - 1 PROVE now[k] # 0
  <2>1. CASE k < nd
    BY <1>2, <1>5, <2>1
  <2>2. CASE k >= nd
    <3>1. k - nd \in 0 .. count - 1 /\ nd + (k - nd) = k
      BY <1>2, <2>2
    <3> QED
      BY <1>6, <3>1
  <2> QED
    BY <1>2, <2>1, <2>2
<1>8. ASSUME NEW k \in Position, k > nd + count PROVE now[k] = dst[k]
  <2>1. k # nd + count /\ k \notin nd .. nd + count - 1
    BY <1>2, <1>8
  <2> QED
    BY <1>3, <2>1
<1> QED
  <2>1. Concatenated(now, count)
    <3>1. IsString(now, nd + count)
      <4>1. now[nd + count] = 0
        BY <1>4
      <4>2. \A k \in 0 .. (nd + count) - 1 : now[k] # 0
        BY <1>2, <1>7
      <4> QED
        BY <4>1, <4>2 DEF IsString
    <3>2. /\ \A k \in 0 .. nd - 1 : now[k] = dst[k]
          /\ \A k \in 0 .. count - 1 : now[nd + k] = src[k]
      BY <1>5, <1>6
    <3> QED
      BY <1>1, <3>1, <3>2 DEF Concatenated
  <2> QED
    BY <1>0, <1>4, <1>8, <2>1

(* strcat_s, in the three ways it ends.                                    *)
LEMMA StrcatValue ==
  ASSUME NEW nd, NEW ns, StringCall(nd, ns)
  PROVE  /\ strcat_s.returns = "0" => nd + ns <= dest_size /\ Concatenated(strcat_s.dst, ns)
         /\ strcat_s.returns = "1" => nd + ns > dest_size /\ IsString(strcat_s.dst, 0)
         /\ \A k \in dest_size .. Cells - 1 :
              strcat_s.dst[k] # dst[k] =>
                k = dest_size /\ nd + ns = dest_size /\ strcat_s.dst[k] = 0
<1> DEFINE room == dest_size - strlen(dst)
           count == Copied(room)
           tooLong == count = room /\ src[count] # 0
<1>1. strlen(dst) = nd
  BY StrlenValue DEF StringCall
<1>2. /\ Cells \in Nat \ {0} /\ Position = 0 .. Cells - 1
      /\ nd \in Nat /\ ns \in Nat /\ nd + ns < Cells /\ dest_size \in Nat /\ dest_size < Cells
  BY PositionRange DEF StringCall
<1>3. src[ns] = 0 /\ \A k \in 0 .. ns - 1 : src[k] # 0
  BY DEF StringCall, IsString
<1>4. CASE room <= 0
  <2>1. strcat_s = [dst |-> dst, returns |-> "halt"]
    BY <1>1, <1>2, <1>4 DEF strcat_s
  <2> QED
    BY <2>1
<1>5. ASSUME room > 0 PROVE count = IF room < ns THEN room ELSE ns
  <2>1. room \in Position
    BY <1>1, <1>2, <1>5
  <2> QED
    BY <2>1, CopiedValue DEF StringCall
<1>6. CASE room > 0 /\ tooLong
  <2>1. strcat_s = [dst |-> [Behind(count) EXCEPT ![0] = 0], returns |-> "1"]
    BY <1>1, <1>2, <1>6 DEF strcat_s
  <2>2. room < ns /\ count = room
    BY <1>1, <1>2, <1>3, <1>5, <1>6
  <2>3. nd + ns > dest_size
    BY <1>1, <1>2, <2>2
  <2>4. 0 \in Position /\ strcat_s.dst[0] = 0
    <3>1. 0 \in Position
      BY <1>2
    <3> QED
      BY <2>1, <3>1 DEF Behind
  <2>5. ASSUME NEW k \in dest_size .. Cells - 1 PROVE strcat_s.dst[k] = dst[k]
    <3>1. k \in Position /\ k # 0 /\ k \notin nd .. nd + count - 1
      BY <1>1, <1>2, <1>6, <2>2
    <3> HIDE DEF count
    <3> QED
      BY <1>1, <2>1, <3>1 DEF Behind
  <2> QED
    BY <2>1, <2>3, <2>4, <2>5 DEF IsString
<1>7. CASE room > 0 /\ ~tooLong
  <2>1. strcat_s = [dst |-> Ended(count), returns |-> "0"]
    BY <1>1, <1>2, <1>7 DEF strcat_s
  <2>2. count = ns /\ ns <= room
    BY <1>1, <1>2, <1>3, <1>5, <1>7
  <2>3. /\ Concatenated(Ended(ns), ns)
        /\ \A k \in Position : k > nd + ns => Ended(ns)[k] = dst[k]
        /\ Ended(ns)[nd + ns] = 0
    <3>1. ns \in 0 .. ns
      BY <1>2
    <3> QED
      BY <3>1, EndedValue
  <2>4. nd + ns <= dest_size
    BY <1>1, <1>2, <2>2
  <2>5. strcat_s.dst = Ended(ns) /\ strcat_s.returns = "0"
    BY <2>1, <2>2
  <2>6. ASSUME NEW k \in dest_size .. Cells - 1, Ended(ns)[k] # dst[k]
        PROVE  k = dest_size /\ nd + ns = dest_size /\ Ended(ns)[k] = 0
    <3>1. k \in Position /\ ~(k > nd + ns)
      BY <1>2, <2>3, <2>6
    <3>2. k = dest_size /\ nd + ns = dest_size
      BY <1>2, <2>4, <3>1
    <3> QED
      BY <2>3, <3>2
  <2> QED
    BY <2>3, <2>4, <2>5, <2>6
<1> QED
  <2>1. room \in Int
    BY <1>1, <1>2
  <2> QED
    BY <1>4, <1>6, <1>7, <2>1

Answers ==
  [strlen |-> strlen(dst), strcmp |-> strcmp, memcmp |-> memcmp,
   strncat |-> strncat, strcat_s |-> strcat_s]

StringsInv ==
  /\ Terminated(dst) /\ Terminated(src) /\ size \in Position /\ dest_size \in Position
  /\ strlen(dst) + strlen(src) < Cells
  /\ results = <<>> \/ results = <<Answers>>

LEMMA StringsInvSuffices == StringsInv => StringResults
<1> SUFFICES ASSUME StringsInv, results = <<Answers>> PROVE StringResults
  BY DEF StringsInv, StringResults
<1>1. PICK nd \in Position : IsString(dst, nd)
  BY StringEnds DEF StringsInv
<1>2. PICK ns \in Position : IsString(src, ns)
  BY StringEnds DEF StringsInv
<1>3. strlen(dst) = nd /\ strlen(src) = ns
  BY <1>1, <1>2, StrlenValue DEF StringsInv, Terminated
<1>4. StringCall(nd, ns)
  BY <1>1, <1>2, <1>3 DEF StringsInv, Terminated, StringCall
<1>5. /\ results[1].strlen = nd /\ results[1].strcmp = strcmp
      /\ results[1].memcmp = memcmp /\ results[1].strncat = strncat
      /\ results[1].strcat_s = strcat_s
  BY <1>3 DEF Answers
<1>6. ASSUME NEW k \in Position, FirstDifference(k)
      PROVE  /\ k < size => Sign(memcmp) = Sign(dst[k] - src[k])
             /\ k <= nd => strcmp # 0 /\ (SameHalf(k) => Sign(strcmp) = Sign(dst[k] - src[k]))
  <2>1. k < size => Sign(memcmp) = Sign(dst[k] - src[k])
    BY <1>6, MemcmpValue DEF StringsInv
  <2>2. ASSUME k <= nd PROVE strcmp = Signed(dst[k]) - Signed(src[k])
    <3>1. Decides(k)
      BY <1>1, <1>6, <2>2, PositionRange DEF Decides, IsString, FirstDifference
    <3> QED
      BY <3>1, StrcmpValue
  <2>3. dst[k] \in 0 .. 255 /\ src[k] \in 0 .. 255 /\ dst[k] # src[k]
    BY <1>6, MemoryAssumption DEF StringsInv, Terminated, Memory, FirstDifference
  <2> QED
    BY <2>1, <2>2, <2>3, SignedOrder DEF SameHalf
<1>7. (\A k \in 0 .. nd : dst[k] = src[k]) => strcmp = 0
  <2> SUFFICES ASSUME \A k \in 0 .. nd : dst[k] = src[k] PROVE strcmp = 0
    OBVIOUS
  <2>1. nd \in 0 .. nd /\ \A j \in 0 .. nd - 1 : j \in 0 .. nd
    BY PositionRange
  <2>2. Decides(nd)
    BY <1>1, <2>1 DEF Decides, IsString
  <2>3. dst[nd] = 0 /\ src[nd] = 0 /\ strcmp = Signed(dst[nd]) - Signed(src[nd])
    BY <1>1, <2>1, <2>2, StrcmpValue DEF IsString
  <2> QED
    BY <2>3 DEF Signed
<1>8. Concatenated(strncat, IF size < ns THEN size ELSE ns)
  <2>1. Copied(size) = IF size < ns THEN size ELSE ns
    BY <1>2, CopiedValue DEF StringsInv
  <2>2. (IF size < ns THEN size ELSE ns) \in 0 .. ns
    BY <1>2, PositionRange DEF StringsInv
  <2> QED
    BY <1>4, <2>1, <2>2, EndedValue DEF strncat
<1>9. /\ strcat_s.returns = "0" => nd + ns <= dest_size /\ Concatenated(strcat_s.dst, ns)
      /\ strcat_s.returns = "1" => nd + ns > dest_size /\ IsString(strcat_s.dst, 0)
      /\ \A k \in dest_size .. Cells - 1 :
           strcat_s.dst[k] # dst[k] =>
             k = dest_size /\ nd + ns = dest_size /\ strcat_s.dst[k] = 0
  BY <1>4, StrcatValue
<1> QED
  BY <1>1, <1>3, <1>5, <1>6, <1>7, <1>8, <1>9 DEF StringResults

(* For all strings that fit the memory together and bytes of any value,    *)
(* the string functions return what C asks of them, with three exceptions: *)
(* strcmp's order when just one of the first bytes that differ is 0x80 or  *)
(* above, memcmp of equal buffers, and a 0 that strcat_s puts just behind  *)
(* a buffer that the strings fill.                                         *)
THEOREM StringsKeepToC == StringsSpec => []StringResults
<1>1. StringsInit => StringsInv
  BY DEF StringsInit, StringsInv, Terminated
<1>2. StringsInv /\ [Call]_stringVars => StringsInv'
  <2> SUFFICES ASSUME StringsInv, [Call]_stringVars PROVE StringsInv'
    OBVIOUS
  <2>1. UNCHANGED <<dst, src, size, dest_size>>
    BY DEF Call, stringVars
  <2>2. results' = results \/ results' = <<Answers>>
    BY DEF Call, stringVars, Answers
  <2>3. Answers' = Answers
    BY <2>1 DEF Answers, strlen, strcmp, Signed, memcmp, strncat, strcat_s, Ended, Behind, Copied
  <2>4. strlen(dst)' = strlen(dst) /\ strlen(src)' = strlen(src)
    BY <2>1 DEF strlen
  <2>5. Terminated(dst)' /\ Terminated(src)' /\ (size \in Position /\ dest_size \in Position)'
    BY <2>1 DEF StringsInv, Terminated
  <2> QED
    BY <2>2, <2>3, <2>4, <2>5 DEF StringsInv
<1>3. StringsInv => StringResults
  BY StringsInvSuffices
<1> QED
  BY <1>1, <1>2, <1>3, PTL DEF StringsSpec

----------------------------------------------------------------------------
(* vsnprintf: sequences that begin with a character.                       *)
LEMMA OneBefore ==
  ASSUME NEW S, NEW c \in S, NEW r \in Seq(S)
  PROVE  /\ <<c>> \o r \in Seq(S)
         /\ Len(<<c>> \o r) = 1 + Len(r)
         /\ (<<c>> \o r)[1] = c
         /\ \A k \in 1 .. Len(r) : (<<c>> \o r)[1 + k] = r[k]
<1>1. <<c>> \in Seq(S) /\ Len(<<c>>) = 1 /\ <<c>>[1] = c
  OBVIOUS
<1>2. /\ <<c>> \o r \in Seq(S)
      /\ Len(<<c>> \o r) = Len(<<c>>) + Len(r)
      /\ \A i \in 1 .. Len(<<c>>) + Len(r) :
           (<<c>> \o r)[i] = IF i <= Len(<<c>>) THEN <<c>>[i] ELSE r[i - Len(<<c>>)]
  BY <1>1, ConcatProperties
<1>3. Len(r) \in Nat
  BY LenProperties
<1> QED
  BY <1>1, <1>2, <1>3

LEMMA HeadAndTail ==
  ASSUME NEW S, NEW c \in S, NEW r \in Seq(S)
  PROVE  Head(<<c>> \o r) = c /\ Tail(<<c>> \o r) = r
<1> DEFINE s == <<c>> \o r
<1>1. s \in Seq(S) /\ Len(s) = 1 + Len(r) /\ s[1] = c
      /\ \A k \in 1 .. Len(r) : s[1 + k] = r[k]
  BY OneBefore
<1>2. Len(r) \in Nat
  BY LenProperties
<1> HIDE DEF s
<1>3. s # <<>>
  BY <1>1, <1>2
<1>4. /\ Head(s) = s[1] /\ Tail(s) \in Seq(S) /\ Len(Tail(s)) = Len(s) - 1
      /\ \A k \in 1 .. Len(Tail(s)) : Tail(s)[k] = s[k + 1]
  BY <1>1, <1>3, HeadTailProperties
<1>5. Tail(s) = r
  <2>1. Len(Tail(s)) = Len(r)
    BY <1>1, <1>2, <1>4
  <2>2. \A k \in 1 .. Len(Tail(s)) : Tail(s)[k] = r[k]
    BY <1>1, <1>2, <1>4, <2>1
  <2> QED
    BY <1>4, <2>1, <2>2, SeqEqual
<1> QED
  BY <1>1, <1>4, <1>5 DEF s

LEMMA FirstAndRest ==
  ASSUME NEW S, NEW s \in Seq(S), s # <<>>
  PROVE  /\ s[1] \in S /\ Head(s) = s[1] /\ Tail(s) \in Seq(S) /\ Len(Tail(s)) = Len(s) - 1
         /\ \A k \in 1 .. Len(Tail(s)) : Tail(s)[k] = s[k + 1]
         /\ s = <<s[1]>> \o Tail(s)
<1>1. /\ Len(s) \in Nat \ {0} /\ Tail(s) \in Seq(S) /\ Len(Tail(s)) = Len(s) - 1
      /\ \A k \in 1 .. Len(Tail(s)) : Tail(s)[k] = s[k + 1]
  BY EmptySeq, HeadTailProperties
<1>2. s[1] \in S /\ Head(s) = s[1]
  BY <1>1, ElementOfSeq
<1> DEFINE t == <<s[1]>> \o Tail(s)
<1>3. t \in Seq(S) /\ Len(t) = 1 + Len(Tail(s)) /\ t[1] = s[1]
      /\ \A k \in 1 .. Len(Tail(s)) : t[1 + k] = Tail(s)[k]
  BY <1>1, <1>2, OneBefore
<1>4. s = t
  <2> HIDE DEF t
  <2>1. Len(s) = Len(t)
    BY <1>1, <1>3
  <2>2. ASSUME NEW i \in 1 .. Len(s) PROVE s[i] = t[i]
    <3>1. CASE i = 1
      BY <1>3, <3>1
    <3>2. CASE i # 1
      <4>1. i - 1 \in 1 .. Len(Tail(s)) /\ 1 + (i - 1) = i /\ (i - 1) + 1 = i
        BY <1>1, <3>2
      <4> QED
        BY <1>1, <1>3, <4>1
    <3> QED
      BY <3>1, <3>2
  <2> QED
    BY <1>3, <2>1, <2>2, SeqEqual
<1> QED
  BY <1>1, <1>2, <1>4

(* The characters of a format, its end included.                          *)
Char == Glyphs \cup {NUL}

(* r is what s has behind its first i elements.                            *)
Ends(s, i, r) == Len(s) = i + Len(r) /\ \A k \in 1 .. Len(r) : s[i + k] = r[k]

LEMMA EndsWithFirst ==
  ASSUME NEW s \in Seq(Char), NEW i \in Nat, NEW c \in Char, NEW r \in Seq(Char),
         Ends(s, i, <<c>> \o r)
  PROVE  s[i + 1] = c /\ i + 1 <= Len(s) /\ Ends(s, i + 1, r)
<1> DEFINE t == <<c>> \o r
<1>1. Len(t) = 1 + Len(r) /\ t[1] = c /\ \A k \in 1 .. Len(r) : t[1 + k] = r[k]
  BY OneBefore
<1>2. Len(r) \in Nat
  BY LenProperties
<1>3. Len(s) = i + Len(t) /\ \A k \in 1 .. Len(t) : s[i + k] = t[k]
  BY DEF Ends
<1> HIDE DEF t
<1>4. s[i + 1] = c /\ i + 1 <= Len(s)
  <2>1. 1 \in 1 .. Len(t) /\ i + 1 <= Len(s)
    BY <1>1, <1>2, <1>3
  <2>2. s[i + 1] = t[1]
    BY <1>3, <2>1
  <2> QED
    BY <1>1, <2>1, <2>2
<1>5. ASSUME NEW k \in 1 .. Len(r) PROVE s[(i + 1) + k] = r[k]
  <2>1. 1 + k \in 1 .. Len(t) /\ (i + 1) + k = i + (1 + k)
    BY <1>1, <1>2
  <2> QED
    BY <1>1, <1>3, <2>1
<1>6. Len(s) = (i + 1) + Len(r)
  BY <1>1, <1>2, <1>3
<1> QED
  BY <1>4, <1>5, <1>6 DEF Ends

(* What the format still spells, its end included.                         *)
Spelled(t) == t.spelling \o <<NUL>>

(* What a directive is when the format goes on with D behind its % and     *)
(* modifiers, the arguments with A, the text with T, and n digits are to   *)
(* be printed unless other modifiers follow.                               *)
CharacterOf(D, A, T, c, v) ==
  D = <<c>> \o Spelled(v) /\ A = v.arguments /\ T = <<c>> \o v.prints

StringOf(D, A, T, c, s, v) ==
  D = <<c>> \o Spelled(v) /\ A = <<s>> \o v.arguments /\ T = s \o v.prints

NumberOf(D, A, T, n, c, value, v) ==
  D = <<c>> \o Spelled(v) /\ A = <<value>> \o v.arguments /\ T = HexText(n, value) \o v.prints

ModifiedOf(D, A, T, n, run, c, value, v) ==
  D = run \o (<<c>> \o Spelled(v)) /\ A = <<value>> \o v.arguments
    /\ T = HexText(IF run = <<>> THEN n ELSE DigitCount(run), value) \o v.prints

Modifier == {"l", "L", "h", "H"}
Conversion == {"s", "S", "x", "X"} \cup Modifier

DirectiveOf(D, A, T, n) ==
  \/ D = <<NUL>> /\ T = <<>>
  \/ \E c \in Glyphs \ Conversion, v \in Texts : CharacterOf(D, A, T, c, v)
  \/ \E c \in {"s", "S"}, s \in StringArguments, v \in Texts : StringOf(D, A, T, c, s, v)
  \/ \E run \in Seq(Modifier), c \in {"x", "X"}, value \in Numbers, v \in Texts :
       ModifiedOf(D, A, T, n, run, c, value, v)

LEMMA TextTypes ==
  ASSUME NEW t \in Texts
  PROVE  /\ t \in Text /\ t.spelling \in Seq(Char) /\ t.prints \in Seq(Char)
         /\ t.arguments \in Seq(StringArguments \cup Numbers)
         /\ Spelled(t) \in Seq(Char)
<1>1. t \in Text
  BY FormatAssumption
<1>2. t.spelling \in Seq(Glyphs) /\ t.prints \in Seq(Glyphs)
      /\ t.arguments \in Seq(StringArguments \cup Numbers)
  BY <1>1 DEF Text
<1>3. <<NUL>> \in Seq(Char) /\ Glyphs \subseteq Char
  BY DEF Char
<1>4. t.spelling \in Seq(Char) /\ t.prints \in Seq(Char)
  BY <1>2, <1>3, SeqMonotonic
<1> QED
  BY <1>1, <1>2, <1>3, <1>4, ConcatProperties DEF Spelled

(* What a text can begin with.                                             *)
TextBegins(u) ==
  \/ Spelled(u) = <<NUL>> /\ u.prints = <<>>
  \/ \E c \in Glyphs \ {"%"}, v \in Texts :
       CharacterOf(Spelled(u), u.arguments, u.prints, c, v)
  \/ \E D \in Seq(Char) :
       Spelled(u) = <<"%">> \o D /\ DirectiveOf(D, u.arguments, u.prints, 8)

LEMMA NothingBegins == TextBegins(Nothing)
<1>1. Spelled(Nothing) = <<>> \o <<NUL>> /\ Nothing.prints = <<>>
  BY DEF Spelled, Nothing
<1>2. <<NUL>> \in Seq(Char)
  BY DEF Char
<1>3. <<>> \o <<NUL>> = <<NUL>>
  BY <1>2, ConcatEmptySeq
<1> QED
  BY <1>1, <1>3 DEF TextBegins

LEMMA LonePercentBegins == TextBegins(LonePercent)
<1>1. Spelled(LonePercent) = <<"%">> \o <<NUL>> /\ LonePercent.prints = <<>>
  BY DEF Spelled, LonePercent
<1>2. <<NUL>> \in Seq(Char)
  BY DEF Char
<1>3. DirectiveOf(<<NUL>>, LonePercent.arguments, LonePercent.prints, 8)
  BY <1>1 DEF DirectiveOf
<1> QED
  BY <1>1, <1>2, <1>3 DEF TextBegins

(* Joining a piece's spelling, a text and the end.                         *)
LEMMA SpelledThen ==
  ASSUME NEW p, p.spelling \in Seq(Char), NEW v \in Texts
  PROVE  Spelled(Then(p, v)) = p.spelling \o Spelled(v)
<1>1. Then(p, v).spelling = p.spelling \o v.spelling
  BY DEF Then
<1>2. v.spelling \in Seq(Char) /\ <<NUL>> \in Seq(Char)
  BY TextTypes DEF Char
<1>3. (p.spelling \o v.spelling) \o <<NUL>> = p.spelling \o (v.spelling \o <<NUL>>)
  <2>1. \A q, r, s \in Seq(Char) : (q \o r) \o s = q \o (r \o s)
    BY ConcatAssociative
  <2> QED
    BY <1>2, <2>1
<1> QED
  BY <1>1, <1>3 DEF Spelled

LEMMA LiteralBegins ==
  ASSUME NEW c \in Glyphs \ {"%"}, NEW v \in Texts
  PROVE  TextBegins(Then(Literal(c), v))
<1> DEFINE u == Then(Literal(c), v)
<1>1. c \in Char /\ <<c>> \in Seq(Char)
  BY DEF Char
<1>2. Literal(c).spelling = <<c>> /\ Literal(c).arguments = <<>> /\ Literal(c).prints = <<c>>
  BY DEF Literal
<1>3. Spelled(u) = <<c>> \o Spelled(v)
  BY <1>1, <1>2, SpelledThen
<1>4. u.arguments = <<>> \o v.arguments /\ u.prints = <<c>> \o v.prints
  BY <1>2 DEF Then
<1>5. u.arguments = v.arguments
  BY <1>4, TextTypes, ConcatEmptySeq
<1> HIDE DEF u
<1>6. CharacterOf(Spelled(u), u.arguments, u.prints, c, v)
  BY <1>3, <1>4, <1>5 DEF CharacterOf
<1> QED
  BY <1>6 DEF TextBegins, u

LEMMA PercentBegins ==
  ASSUME NEW c \in Glyphs \ Conversion, NEW v \in Texts
  PROVE  TextBegins(Then(Percent(c), v))
<1> DEFINE u == Then(Percent(c), v)
           D == <<c>> \o Spelled(v)
<1>1. c \in Char /\ "%" \in Char
  BY FormatAssumption DEF Char
<1>2. /\ Percent(c).spelling = <<"%", c>> /\ Percent(c).arguments = <<>>
      /\ Percent(c).prints = <<c>>
  BY DEF Percent
<1>3. <<"%", c>> = <<"%">> \o <<c>> /\ <<"%", c>> \in Seq(Char) /\ <<c>> \in Seq(Char)
      /\ <<"%">> \in Seq(Char)
  BY <1>1
<1>4. Spelled(u) = <<"%">> \o D
  <2>1. Spelled(u) = (<<"%">> \o <<c>>) \o Spelled(v)
    BY <1>2, <1>3, SpelledThen
  <2> QED
    BY <1>3, <2>1, TextTypes, ConcatAssociative
<1>5. u.arguments = <<>> \o v.arguments /\ u.prints = <<c>> \o v.prints
  BY <1>2 DEF Then
<1>6. u.arguments = v.arguments
  BY <1>5, TextTypes, ConcatEmptySeq
<1>7. D \in Seq(Char)
  BY <1>3, TextTypes, ConcatProperties
<1> HIDE DEF u
<1>8. CharacterOf(D, u.arguments, u.prints, c, v)
  BY <1>5, <1>6 DEF CharacterOf
<1> HIDE DEF D
<1>9. DirectiveOf(D, u.arguments, u.prints, 8)
  BY <1>8 DEF DirectiveOf
<1> QED
  BY <1>4, <1>7, <1>9 DEF TextBegins, u

LEMMA StringBegins ==
  ASSUME NEW c \in {"s", "S"}, NEW s \in StringArguments, NEW v \in Texts
  PROVE  TextBegins(Then(Str(c, s), v))
<1> DEFINE u == Then(Str(c, s), v)
           D == <<c>> \o Spelled(v)
<1>1. c \in Char /\ "%" \in Char
  BY FormatAssumption DEF Char
<1>2. /\ Str(c, s).spelling = <<"%", c>> /\ Str(c, s).arguments = <<s>>
      /\ Str(c, s).prints = s
  BY DEF Str
<1>3. <<"%", c>> = <<"%">> \o <<c>> /\ <<"%", c>> \in Seq(Char) /\ <<c>> \in Seq(Char)
      /\ <<"%">> \in Seq(Char)
  BY <1>1
<1>4. Spelled(u) = <<"%">> \o D
  <2>1. Spelled(u) = (<<"%">> \o <<c>>) \o Spelled(v)
    BY <1>2, <1>3, SpelledThen
  <2> QED
    BY <1>3, <2>1, TextTypes, ConcatAssociative
<1>5. u.arguments = <<s>> \o v.arguments /\ u.prints = s \o v.prints
  BY <1>2 DEF Then
<1>6. D \in Seq(Char)
  BY <1>3, TextTypes, ConcatProperties
<1> HIDE DEF u
<1>7. StringOf(D, u.arguments, u.prints, c, s, v)
  BY <1>5 DEF StringOf
<1> HIDE DEF D
<1>8. DirectiveOf(D, u.arguments, u.prints, 8)
  BY <1>7 DEF DirectiveOf
<1> QED
  BY <1>4, <1>6, <1>8 DEF TextBegins, u

LEMMA NumberBegins ==
  ASSUME NEW run \in Modifiers, NEW c \in {"x", "X"}, NEW value \in Numbers, NEW v \in Texts
  PROVE  TextBegins(Then(Hex(run, c, value), v))
<1> DEFINE u == Then(Hex(run, c, value), v)
           D == run \o (<<c>> \o Spelled(v))
<1>1. c \in Char /\ "%" \in Char
  BY FormatAssumption DEF Char
<1>2. /\ Hex(run, c, value).spelling = <<"%">> \o run \o <<c>>
      /\ Hex(run, c, value).arguments = <<value>>
      /\ Hex(run, c, value).prints = HexText(DigitCount(run), value)
  BY DEF Hex
<1>3. <<c>> \in Seq(Char) /\ <<"%">> \in Seq(Char)
  BY <1>1
<1>4. run \in Seq(Modifier) /\ run \in Seq(Char)
  <2>1. run \in Seq(Modifier) /\ Modifier \subseteq Char
    BY FormatAssumption DEF Modifier, Char
  <2> QED
    BY <2>1, SeqMonotonic
<1>5. Spelled(v) \in Seq(Char)
  BY TextTypes
<1>6. <<c>> \o Spelled(v) \in Seq(Char) /\ D \in Seq(Char) /\ <<"%">> \o run \in Seq(Char)
      /\ <<"%">> \o run \o <<c>> \in Seq(Char)
  BY <1>3, <1>4, <1>5, ConcatProperties
<1>7. Spelled(u) = <<"%">> \o D
  <2>1. Spelled(u) = ((<<"%">> \o run) \o <<c>>) \o Spelled(v)
    BY <1>2, <1>6, SpelledThen
  <2>2. @ = (<<"%">> \o run) \o (<<c>> \o Spelled(v))
    BY <1>3, <1>5, <1>6, ConcatAssociative
  <2>3. @ = <<"%">> \o D
    BY <1>3, <1>4, <1>6, ConcatAssociative
  <2> QED
    BY <2>1, <2>2, <2>3
<1>8. u.arguments = <<value>> \o v.arguments
      /\ u.prints = HexText(DigitCount(run), value) \o v.prints
  BY <1>2 DEF Then
<1>9. DigitCount(run) = IF run = <<>> THEN 8 ELSE DigitCount(run)
  BY DEF DigitCount
<1> HIDE DEF u
<1>10. ModifiedOf(D, u.arguments, u.prints, 8, run, c, value, v)
  BY <1>8, <1>9 DEF ModifiedOf
<1> HIDE DEF D
<1>11. DirectiveOf(D, u.arguments, u.prints, 8)
  BY <1>4, <1>10 DEF DirectiveOf
<1> QED
  BY <1>6, <1>7, <1>11 DEF TextBegins, u

LEMMA EveryTextBegins ==
  ASSUME NEW u \in Texts
  PROVE  TextBegins(u)
<1>1. u \in {Nothing, LonePercent} \/ \E p \in Pieces, v \in Texts : u = Then(p, v)
  BY FormatAssumption
<1>2. ASSUME NEW p \in Pieces, NEW v \in Texts PROVE TextBegins(Then(p, v))
  <2>1. CASE p \in {Literal(c) : c \in Glyphs \ {"%"}}
    BY <2>1, LiteralBegins
  <2>2. CASE p \in {Percent(c) : c \in Glyphs \ {"s", "S", "l", "L", "h", "H", "x", "X"}}
    <3>1. PICK c \in Glyphs \ {"s", "S", "l", "L", "h", "H", "x", "X"} : p = Percent(c)
      BY <2>2
    <3>2. c \in Glyphs \ Conversion
      BY DEF Conversion, Modifier
    <3> QED
      BY <3>1, <3>2, PercentBegins
  <2>3. CASE p \in {Str(c, s) : c \in {"s", "S"}, s \in StringArguments}
    BY <2>3, StringBegins
  <2>4. CASE p \in {Hex(run, c, value) : run \in Modifiers, c \in {"x", "X"}, value \in Numbers}
    BY <2>4, NumberBegins
  <2> QED
    BY <2>1, <2>2, <2>3, <2>4 DEF Pieces
<1> QED
  BY <1>1, <1>2, NothingBegins, LonePercentBegins

(* A run of modifiers is read from its first one.                          *)
LEMMA RunRest ==
  ASSUME NEW run \in Seq(Modifier), run # <<>>
  PROVE  /\ run[1] \in Modifier /\ Tail(run) \in Seq(Modifier)
         /\ run = <<run[1]>> \o Tail(run)
         /\ DigitCount(run) = IF Tail(run) = <<>> THEN IF run[1] \in {"l", "L"} THEN 16 ELSE 2
                              ELSE DigitCount(Tail(run))
<1>1. /\ run[1] \in Modifier /\ Tail(run) \in Seq(Modifier) /\ Len(Tail(run)) = Len(run) - 1
      /\ \A k \in 1 .. Len(Tail(run)) : Tail(run)[k] = run[k + 1]
      /\ run = <<run[1]>> \o Tail(run)
  BY FirstAndRest
<1>2. Len(run) \in Nat \ {0}
  BY EmptySeq
<1>3. CASE Tail(run) = <<>>
  <2>1. Len(run) = 1
    BY <1>1, <1>2, <1>3, EmptySeq
  <2> QED
    BY <1>1, <1>3, <2>1 DEF DigitCount
<1>4. CASE Tail(run) # <<>>
  <2>1. Len(Tail(run)) \in Nat \ {0}
    BY <1>1, <1>4, EmptySeq
  <2>2. Tail(run)[Len(Tail(run))] = run[Len(run)]
    <3>1. Len(Tail(run)) \in 1 .. Len(Tail(run)) /\ Len(Tail(run)) + 1 = Len(run)
      BY <1>1, <1>2, <2>1
    <3> QED
      BY <1>1, <3>1
  <2> QED
    BY <1>1, <1>4, <2>2 DEF DigitCount
<1> QED
  BY <1>1, <1>3, <1>4

(* What the first character of a directive says.                           *)
DirectiveEnds(D, T) == D = <<NUL>> /\ T = <<>>
DirectiveGoesOn(D, A, T, n) ==
  \E E \in Seq(Char) :
    D = <<D[1]>> \o E /\ DirectiveOf(E, A, T, IF D[1] \in {"l", "L"} THEN 16 ELSE 2)

FirstSays(D, A, T, n) ==
  /\ D[1] \in Char
  /\ D[1] = NUL => DirectiveEnds(D, T)
  /\ D[1] \notin Conversion \cup {NUL} => \E v \in Texts : CharacterOf(D, A, T, D[1], v)
  /\ D[1] \in {"s", "S"} =>
       \E s \in StringArguments, v \in Texts : StringOf(D, A, T, D[1], s, v)
  /\ D[1] \in {"x", "X"} =>
       \E value \in Numbers, v \in Texts : NumberOf(D, A, T, n, D[1], value, v)
  /\ D[1] \in Modifier => DirectiveGoesOn(D, A, T, n)

LEMMA KindsOfCharacters ==
  /\ NUL \notin Conversion
  /\ {"s", "S"} \cap ({"x", "X"} \cup Modifier) = {} /\ {"x", "X"} \cap Modifier = {}
  /\ "%" \notin Conversion /\ "%" # NUL
  /\ Conversion \subseteq Glyphs
BY FormatAssumption DEF Conversion, Modifier, NUL

LEMMA DirectiveFirst ==
  ASSUME NEW D, NEW A, NEW T, NEW n, DirectiveOf(D, A, T, n)
  PROVE  FirstSays(D, A, T, n)
<1>1. CASE D = <<NUL>> /\ T = <<>>
  <2>1. D[1] = NUL /\ NUL \in Char /\ NUL \notin {"s", "S", "x", "X"} \cup Modifier
    BY <1>1, KindsOfCharacters DEF Char, Conversion
  <2> QED
    BY <1>1, <2>1 DEF FirstSays, DirectiveEnds
<1>2. ASSUME NEW c \in Glyphs \ Conversion, NEW v \in Texts, CharacterOf(D, A, T, c, v)
      PROVE  FirstSays(D, A, T, n)
  <2>1. D[1] = c /\ c \in Char
    BY <1>2, TextTypes, OneBefore DEF CharacterOf, Char
  <2>2. c # NUL /\ c \notin {"s", "S", "x", "X"} \cup Modifier
    BY FormatAssumption DEF Conversion
  <2> QED
    BY <1>2, <2>1, <2>2 DEF FirstSays
<1>3. ASSUME NEW c \in {"s", "S"}, NEW s \in StringArguments, NEW v \in Texts,
             StringOf(D, A, T, c, s, v)
      PROVE  FirstSays(D, A, T, n)
  <2>1. c \in Conversion /\ c \in Char /\ c # NUL /\ c \notin {"x", "X"} \cup Modifier
    BY KindsOfCharacters DEF Conversion, Char
  <2>2. D[1] = c
    BY <1>3, <2>1, TextTypes, OneBefore DEF StringOf
  <2> QED
    BY <1>3, <2>1, <2>2 DEF FirstSays
<1>4. ASSUME NEW run \in Seq(Modifier), NEW c \in {"x", "X"}, NEW value \in Numbers,
             NEW v \in Texts, ModifiedOf(D, A, T, n, run, c, value, v)
      PROVE  FirstSays(D, A, T, n)
  <2>1. c \in Conversion /\ c \in Char /\ c # NUL /\ c \notin {"s", "S"} \cup Modifier
    BY KindsOfCharacters DEF Conversion, Char
  <2> DEFINE E == <<c>> \o Spelled(v)
  <2>2. E \in Seq(Char) /\ E[1] = c
    BY <2>1, TextTypes, OneBefore
  <2>3. CASE run = <<>>
    <3>1. D = E
      BY <1>4, <2>2, <2>3, ConcatEmptySeq DEF ModifiedOf
    <3>2. NumberOf(D, A, T, n, c, value, v)
      BY <1>4, <2>3, <3>1 DEF ModifiedOf, NumberOf
    <3> HIDE DEF E
    <3> QED
      BY <2>1, <2>2, <3>1, <3>2 DEF FirstSays
  <2>4. CASE run # <<>>
    <3> DEFINE m == run[1]
               rest2 == Tail(run)
               F == rest2 \o E
               digits == IF m \in {"l", "L"} THEN 16 ELSE 2
    <3>1. /\ m \in Modifier /\ rest2 \in Seq(Modifier) /\ run = <<m>> \o rest2
          /\ DigitCount(run) = IF rest2 = <<>> THEN digits ELSE DigitCount(rest2)
      BY <2>4, RunRest
    <3>2. m \in Char /\ rest2 \in Seq(Char)
      <4>1. Modifier \subseteq Char
        BY KindsOfCharacters DEF Conversion, Char
      <4> QED
        BY <3>1, <4>1, SeqMonotonic
    <3>3. F \in Seq(Char)
      BY <2>2, <3>2, ConcatProperties
    <3>4. D = <<m>> \o F
      <4>1. D = (<<m>> \o rest2) \o E
        BY <1>4, <3>1 DEF ModifiedOf
      <4>2. <<m>> \in Seq(Char)
        BY <3>2
      <4> HIDE DEF m, rest2, E
      <4> QED
        BY <2>2, <3>2, <4>1, <4>2, ConcatAssociative
    <3>5. D[1] = m
      <4> HIDE DEF m, F
      <4> QED
        BY <3>2, <3>3, <3>4, OneBefore
    <3>6. ModifiedOf(F, A, T, digits, rest2, c, value, v)
      BY <1>4, <2>4, <3>1 DEF ModifiedOf
    <3>7. DirectiveOf(F, A, T, digits)
      <4> HIDE DEF F, digits, rest2
      <4> QED
        BY <3>1, <3>6 DEF DirectiveOf
    <3>8. m \in Conversion /\ m # NUL /\ m \notin {"s", "S", "x", "X"}
      <4> HIDE DEF m
      <4> QED
        BY <3>1, KindsOfCharacters DEF Conversion
    <3>9. DirectiveGoesOn(D, A, T, n)
      <4> HIDE DEF F, m
      <4> QED
        BY <3>3, <3>4, <3>5, <3>7 DEF DirectiveGoesOn
    <3> HIDE DEF m
    <3> QED
      BY <3>2, <3>5, <3>8, <3>9 DEF FirstSays
  <2> QED
    BY <2>3, <2>4
<1> QED
  BY <1>1, <1>2, <1>3, <1>4 DEF DirectiveOf

(* The state of vsnprintf: what is printed is the text so far, and what    *)
(* the format, the arguments and the text go on with fit together, unless  *)
(* the buffer is full.                                                     *)
CallInv ==
  /\ text \in Texts /\ out_length \in 0 .. OutSize /\ fmt = Spelled(text)
  /\ fmt_i \in Nat /\ out_i \in Nat /\ digit_index \in {1, 7, 15}
  /\ out_buffer \in [0 .. OutSize - 1 -> Char \cup {Untouched}]
  /\ print_pc \in {"text", "directive", "copying", "done"}

Written ==
  /\ out_i < out_length /\ out_i <= Len(text.prints)
  /\ \A k \in 0 .. out_i - 1 : out_buffer[k] = text.prints[k + 1]
  /\ \A k \in out_i .. OutSize - 1 : out_buffer[k] = Untouched

AtText(u) ==
  /\ Ends(fmt, fmt_i, Spelled(u)) /\ varargs = u.arguments
  /\ Ends(text.prints, out_i, u.prints)

AtDirective(D, T) ==
  /\ Ends(fmt, fmt_i, D) /\ Ends(text.prints, out_i, T)
  /\ DirectiveOf(D, varargs, T, digit_index + 1)

AtCopy(u) ==
  /\ Ends(fmt, fmt_i + 1, Spelled(u)) /\ varargs = u.arguments
  /\ rest \in Seq(Char) /\ Ends(text.prints, out_i, rest \o u.prints)

PrintInv ==
  /\ CallInv
  /\ print_pc # "done" => Written
  /\ print_pc = "text" /\ Room => \E u \in Texts : AtText(u)
  /\ print_pc = "directive" =>
       Room /\ \E D \in Seq(Char), T \in Seq(Char) : AtDirective(D, T)
  /\ print_pc = "copying" => \E u \in Texts : AtCopy(u)
  /\ PrintsText

LEMMA CallTypes ==
  ASSUME CallInv
  PROVE  /\ fmt \in Seq(Char) /\ text.prints \in Seq(Char) /\ Len(text.prints) \in Nat
         /\ out_length \in Nat /\ out_length <= OutSize /\ OutSize \in Nat
BY TextTypes, LenProperties, FormatAssumption DEF CallInv

LEMMA PrintInvInit == ConsoleInit => PrintInv
<1> SUFFICES ASSUME ConsoleInit PROVE PrintInv
  OBVIOUS
<1>1. CallInv
  <2>1. out_buffer \in [0 .. OutSize - 1 -> Char \cup {Untouched}]
    BY DEF ConsoleInit
  <2>2. print_pc \in {"text", "directive", "copying", "done"}
    BY DEF ConsoleInit
  <2> QED
    BY <2>1, <2>2, FormatAssumption DEF ConsoleInit, CallInv, Spelled
<1>2. Len(text.prints) \in Nat /\ Len(fmt) \in Nat /\ out_length \in Nat /\ OutSize \in Nat
  BY <1>1, CallTypes, LenProperties
<1>3. \A k \in 0 .. OutSize - 1 : out_buffer[k] = Untouched
  BY DEF ConsoleInit
<1>4. Ends(fmt, 0, fmt) /\ Ends(text.prints, 0, text.prints)
  BY <1>2 DEF Ends
<1>5. AtText(text)
  BY <1>1, <1>4 DEF AtText, ConsoleInit, CallInv
<1>6. print_pc # "done" => Written
  BY <1>2, <1>3 DEF ConsoleInit, Written
<1>7. PrintsText
  <2> SUFFICES ASSUME print_pc = "done" PROVE PrintsText
    BY DEF PrintsText
  <2>1. out_length = 0
    BY DEF ConsoleInit
  <2> QED
    BY <1>2, <1>3, <2>1 DEF PrintsText
<1> QED
  BY <1>1, <1>5, <1>6, <1>7 DEF PrintInv, ConsoleInit

(* The text or the buffer has ended.                                       *)
LEMMA TerminatePrints ==
  ASSUME CallInv, Written, Terminate, UNCHANGED <<text, fmt, out_length>>,
         ~Room \/ out_i = Len(text.prints)
  PROVE  PrintInv'
<1>1. /\ Len(text.prints) \in Nat /\ out_length \in Nat /\ out_length <= OutSize
      /\ OutSize \in Nat /\ out_i \in Nat
  BY CallTypes DEF CallInv
<1>2. print_pc' = "done" /\ out_i' = out_i
      /\ out_buffer' = [out_buffer EXCEPT ![out_i] = NUL]
  BY DEF Terminate
<1>3. CallInv'
  <2>1. out_buffer' \in [0 .. OutSize - 1 -> Char \cup {Untouched}]
    BY <1>2 DEF CallInv, Char
  <2> QED
    BY <1>2, <2>1 DEF CallInv, Terminate
<1>4. PrintsText'
  <2> DEFINE full == Len(text.prints)
             kept == IF full < out_length THEN full ELSE out_length - 1
  <2>1. kept = out_i
    BY <1>1 DEF Written, Room
  <2>2. out_i \in 0 .. OutSize - 1
    BY <1>1 DEF Written
  <2>3. out_buffer'[out_i] = NUL
    BY <1>2, <2>2 DEF CallInv
  <2>4. \A k \in 0 .. out_i - 1 : out_buffer'[k] = text.prints[k + 1]
    <3> SUFFICES ASSUME NEW k \in 0 .. out_i - 1 PROVE out_buffer'[k] = text.prints[k + 1]
      OBVIOUS
    <3>1. k \in 0 .. OutSize - 1 /\ k # out_i
      BY <1>1, <2>2
    <3> QED
      BY <1>2, <3>1 DEF CallInv, Written
  <2>5. \A k \in out_length .. OutSize - 1 : out_buffer'[k] = Untouched
    <3> SUFFICES ASSUME NEW k \in out_length .. OutSize - 1 PROVE out_buffer'[k] = Untouched
      OBVIOUS
    <3>1. k \in out_i .. OutSize - 1 /\ k \in 0 .. OutSize - 1 /\ k # out_i
      BY <1>1 DEF Written
    <3> QED
      BY <1>2, <3>1 DEF CallInv, Written
  <2>6. text' = text /\ out_length' = out_length
    OBVIOUS
  <2> QED
    BY <2>1, <2>3, <2>4, <2>5, <2>6 DEF PrintsText
<1> QED
  BY <1>2, <1>3, <1>4 DEF PrintInv

(* One more character of the text.                                         *)
LEMMA PutPrints ==
  ASSUME CallInv, Written, Room, NEW c \in Char, Put(c), UNCHANGED <<text, fmt, out_length>>,
         text.prints[out_i + 1] = c, out_i + 1 <= Len(text.prints)
  PROVE  /\ Written' /\ out_i' = out_i + 1
         /\ out_buffer' \in [0 .. OutSize - 1 -> Char \cup {Untouched}]
<1>1. /\ Len(text.prints) \in Nat /\ out_length \in Nat /\ out_length <= OutSize
      /\ OutSize \in Nat /\ out_i \in Nat
  BY CallTypes DEF CallInv
<1>2. out_i' = out_i + 1 /\ out_buffer' = [out_buffer EXCEPT ![out_i] = c]
  BY DEF Put
<1>3. out_i \in 0 .. OutSize - 1 /\ out_i + 1 < out_length
  BY <1>1 DEF Written, Room
<1>4. ASSUME NEW k \in 0 .. (out_i + 1) - 1 PROVE out_buffer'[k] = text.prints[k + 1]
  <2>1. k \in 0 .. OutSize - 1
    BY <1>1, <1>3
  <2>2. CASE k = out_i
    BY <1>2, <1>3, <2>2 DEF CallInv
  <2>3. CASE k # out_i
    <3>1. k \in 0 .. out_i - 1
      BY <1>1, <2>3
    <3> QED
      BY <1>2, <2>1, <2>3, <3>1 DEF CallInv, Written
  <2> QED
    BY <2>2, <2>3
<1>5. ASSUME NEW k \in out_i + 1 .. OutSize - 1 PROVE out_buffer'[k] = Untouched
  <2>1. k \in out_i .. OutSize - 1 /\ k \in 0 .. OutSize - 1 /\ k # out_i
    BY <1>1
  <2> QED
    BY <1>2, <2>1 DEF CallInv, Written
<1>6. out_buffer' \in [0 .. OutSize - 1 -> Char \cup {Untouched}]
  BY <1>2 DEF CallInv
<1>7. text' = text /\ out_length' = out_length
  OBVIOUS
<1>8. Written'
  BY <1>2, <1>3, <1>4, <1>5, <1>7 DEF Written
<1> QED
  BY <1>2, <1>6, <1>8

(* At a character of the format, the invariant says what kinds of text can *)
(* follow it.                                                              *)
LEMMA TextFirst ==
  ASSUME PrintInv, print_pc = "text", Room
  PROVE  /\ FormatChar = NUL => out_i = Len(text.prints)
         /\ FormatChar \notin {NUL, "%"} =>
              \E v \in Texts : /\ FormatChar \in Char
                               /\ Ends(fmt, fmt_i + 1, Spelled(v)) /\ varargs = v.arguments
                               /\ Ends(text.prints, out_i, <<FormatChar>> \o v.prints)
         /\ FormatChar = "%" =>
              \E D \in Seq(Char), T \in Seq(Char) :
                /\ Ends(fmt, fmt_i + 1, D) /\ Ends(text.prints, out_i, T)
                /\ DirectiveOf(D, varargs, T, 8)
<1>1. PICK u \in Texts : AtText(u)
  BY DEF PrintInv
<1>2. /\ fmt \in Seq(Char) /\ fmt_i \in Nat /\ out_i \in Nat /\ Len(text.prints) \in Nat
      /\ Spelled(u) \in Seq(Char) /\ u.prints \in Seq(Char) /\ NUL \in Char /\ "%" \in Char
  BY CallTypes, TextTypes, FormatAssumption DEF PrintInv, CallInv, Char
<1>3. Ends(fmt, fmt_i, Spelled(u)) /\ varargs = u.arguments
      /\ Ends(text.prints, out_i, u.prints)
  BY <1>1 DEF AtText
<1>4. CASE Spelled(u) = <<NUL>> /\ u.prints = <<>>
  <2>1. fmt[fmt_i + 1] = NUL
    <3>1. Len(<<NUL>>) = 1 /\ <<NUL>>[1] = NUL /\ 1 \in 1 .. 1
      OBVIOUS
    <3> QED
      BY <1>3, <1>4, <3>1 DEF Ends
  <2>2. out_i = Len(text.prints)
    BY <1>2, <1>3, <1>4 DEF Ends
  <2> QED
    BY <2>1, <2>2, KindsOfCharacters DEF FormatChar
<1>5. ASSUME NEW c \in Glyphs \ {"%"}, NEW v \in Texts,
             CharacterOf(Spelled(u), u.arguments, u.prints, c, v)
      PROVE  /\ FormatChar = c /\ c \in Char /\ c \notin {NUL, "%"}
             /\ Ends(fmt, fmt_i + 1, Spelled(v)) /\ varargs = v.arguments
             /\ Ends(text.prints, out_i, <<c>> \o v.prints)
  <2>1. c \in Char /\ c \notin {NUL, "%"} /\ Spelled(v) \in Seq(Char)
    BY TextTypes, FormatAssumption DEF Char
  <2>2. Spelled(u) = <<c>> \o Spelled(v) /\ u.prints = <<c>> \o v.prints
        /\ u.arguments = v.arguments
    BY <1>5 DEF CharacterOf
  <2>3. fmt[fmt_i + 1] = c /\ Ends(fmt, fmt_i + 1, Spelled(v))
    BY <1>2, <1>3, <2>1, <2>2, EndsWithFirst
  <2> QED
    BY <1>3, <2>1, <2>2, <2>3 DEF FormatChar
<1>6. ASSUME NEW D \in Seq(Char), Spelled(u) = <<"%">> \o D,
             DirectiveOf(D, u.arguments, u.prints, 8)
      PROVE  FormatChar = "%" /\ Ends(fmt, fmt_i + 1, D)
  BY <1>2, <1>3, <1>6, EndsWithFirst DEF FormatChar
<1>7. TextBegins(u)
  BY EveryTextBegins
<1>8. CASE \E c \in Glyphs \ {"%"}, v \in Texts :
             CharacterOf(Spelled(u), u.arguments, u.prints, c, v)
  BY <1>5, <1>8
<1>9. CASE \E D \in Seq(Char) :
             Spelled(u) = <<"%">> \o D /\ DirectiveOf(D, u.arguments, u.prints, 8)
  <2>1. PICK D \in Seq(Char) :
          Spelled(u) = <<"%">> \o D /\ DirectiveOf(D, u.arguments, u.prints, 8)
    BY <1>9
  <2>2. FormatChar = "%" /\ Ends(fmt, fmt_i + 1, D)
    BY <1>6, <2>1
  <2> QED
    BY <1>2, <1>3, <2>1, <2>2, KindsOfCharacters
<1> QED
  BY <1>4, <1>7, <1>8, <1>9 DEF TextBegins

LEMMA DirectiveChar ==
  ASSUME PrintInv, print_pc = "directive"
  PROVE  \E D \in Seq(Char), T \in Seq(Char) :
           AtDirective(D, T) /\ D[1] = FormatChar /\ FirstSays(D, varargs, T, digit_index + 1)
<1>1. PICK D \in Seq(Char), T \in Seq(Char) : AtDirective(D, T)
  BY DEF PrintInv
<1>2. FirstSays(D, varargs, T, digit_index + 1)
  BY <1>1, DirectiveFirst DEF AtDirective
<1>3. D[1] = FormatChar
  <2>1. D # <<>>
    <3>1. ASSUME NEW c \in Char, NEW r \in Seq(Char) PROVE <<c>> \o r # <<>>
      <4>1. Len(<<c>> \o r) = 1 + Len(r) /\ Len(r) \in Nat
        BY OneBefore, LenProperties
      <4> QED
        BY <4>1, EmptySeq
    <3>2. CASE D[1] = NUL
      BY <1>2, <3>2 DEF FirstSays, DirectiveEnds
    <3>3. CASE D[1] \notin Conversion \cup {NUL}
      BY <1>2, <3>1, <3>3, TextTypes DEF FirstSays, CharacterOf
    <3>4. CASE D[1] \in {"s", "S"}
      BY <1>2, <3>1, <3>4, TextTypes DEF FirstSays, StringOf
    <3>5. CASE D[1] \in {"x", "X"}
      BY <1>2, <3>1, <3>5, TextTypes DEF FirstSays, NumberOf
    <3>6. CASE D[1] \in Modifier
      BY <1>2, <3>1, <3>6 DEF FirstSays, DirectiveGoesOn
    <3> QED
      BY <3>2, <3>3, <3>4, <3>5, <3>6 DEF Conversion
  <2>2. Len(D) \in Nat \ {0}
    BY <2>1, EmptySeq
  <2>3. 1 \in 1 .. Len(D)
    BY <2>2
  <2> QED
    BY <1>1, <2>3 DEF AtDirective, Ends, FormatChar
<1> QED
  BY <1>1, <1>2, <1>3

(* The call itself does not change.                                        *)
SameCall == UNCHANGED <<text, fmt, out_length>>

LEMMA EndOfTextPrints ==
  ASSUME PrintInv, EndOfText, SameCall
  PROVE  PrintInv'
<1>1. CallInv /\ Written /\ Terminate /\ UNCHANGED <<text, fmt, out_length>>
  BY DEF EndOfText, PrintInv, SameCall
<1>2. ~Room \/ out_i = Len(text.prints)
  <2>1. CASE print_pc = "text"
    BY <2>1, TextFirst DEF EndOfText
  <2>2. CASE print_pc = "directive" /\ FormatChar = NUL
    <3>1. PICK D \in Seq(Char), T \in Seq(Char) :
            AtDirective(D, T) /\ D[1] = NUL /\ FirstSays(D, varargs, T, digit_index + 1)
      BY <2>2, DirectiveChar
    <3>2. T = <<>>
      BY <3>1 DEF FirstSays, DirectiveEnds
    <3> QED
      BY <1>1, <3>1, <3>2, CallTypes DEF AtDirective, Ends, CallInv
  <2> QED
    BY <2>1, <2>2 DEF EndOfText
<1> QED
  BY <1>1, <1>2, TerminatePrints

LEMMA PutCharPrints ==
  ASSUME PrintInv, PutChar, SameCall
  PROVE  PrintInv'
<1>1. /\ CallInv /\ Written /\ Room /\ Put(FormatChar)
      /\ fmt_i' = fmt_i + 1 /\ print_pc' = "text"
      /\ UNCHANGED <<digit_index, varargs>>
      /\ UNCHANGED <<text, fmt, out_length>>
  BY DEF PutChar, PrintInv, SameCall
<1>2. \E v \in Texts :
        /\ FormatChar \in Char
        /\ Ends(fmt, fmt_i + 1, Spelled(v)) /\ varargs = v.arguments
        /\ Ends(text.prints, out_i, <<FormatChar>> \o v.prints)
  <2>1. CASE print_pc = "text"
    <3>1. FormatChar \notin {NUL, "%"}
      BY <2>1 DEF PutChar
    <3> QED
      BY <1>1, <2>1, <3>1, TextFirst
  <2>2. CASE print_pc = "directive"
    <3>1. FormatChar \notin Conversion \cup {NUL}
      BY <2>2 DEF PutChar, Conversion, Modifier
    <3>2. PICK D \in Seq(Char), T \in Seq(Char) :
            AtDirective(D, T) /\ D[1] = FormatChar
              /\ FirstSays(D, varargs, T, digit_index + 1)
      BY <2>2, DirectiveChar
    <3>3. PICK v \in Texts : CharacterOf(D, varargs, T, FormatChar, v)
      BY <3>1, <3>2 DEF FirstSays
    <3>4. FormatChar \in Char /\ Spelled(v) \in Seq(Char) /\ fmt \in Seq(Char) /\ fmt_i \in Nat
      BY <1>1, <3>2, TextTypes, CallTypes DEF FirstSays, CallInv
    <3>5. D = <<FormatChar>> \o Spelled(v) /\ varargs = v.arguments
          /\ T = <<FormatChar>> \o v.prints
      BY <3>3 DEF CharacterOf
    <3>6. Ends(fmt, fmt_i + 1, Spelled(v))
      BY <3>2, <3>4, <3>5, EndsWithFirst DEF AtDirective
    <3>7. Ends(text.prints, out_i, <<FormatChar>> \o v.prints)
      BY <3>2, <3>5 DEF AtDirective
    <3> QED
      BY <3>4, <3>5, <3>6, <3>7
  <2> QED
    BY <2>1, <2>2 DEF PutChar
<1>3. PICK c \in Char, v \in Texts :
        /\ c = FormatChar
        /\ Ends(fmt, fmt_i + 1, Spelled(v)) /\ varargs = v.arguments
        /\ Ends(text.prints, out_i, <<c>> \o v.prints)
  BY <1>2
<1>4. /\ text.prints[out_i + 1] = c /\ out_i + 1 <= Len(text.prints)
      /\ Ends(text.prints, out_i + 1, v.prints)
  <2>1. text.prints \in Seq(Char) /\ out_i \in Nat /\ v.prints \in Seq(Char)
    BY <1>1, CallTypes, TextTypes DEF CallInv
  <2> QED
    BY <1>3, <2>1, EndsWithFirst
<1>5. /\ Written' /\ out_i' = out_i + 1
      /\ out_buffer' \in [0 .. OutSize - 1 -> Char \cup {Untouched}]
  BY <1>1, <1>3, <1>4, PutPrints
<1>6. CallInv'
  BY <1>1, <1>5 DEF CallInv
<1>7. AtText(v)'
  BY <1>1, <1>3, <1>4, <1>5 DEF AtText
<1>8. PrintsText'
  BY <1>1 DEF PrintsText
<1> QED
  BY <1>1, <1>5, <1>6, <1>7, <1>8 DEF PrintInv

LEMMA DirectivePrints ==
  ASSUME PrintInv, Directive, SameCall
  PROVE  PrintInv'
<1>1. /\ CallInv /\ Written /\ Room /\ fmt_i' = fmt_i + 1 /\ print_pc' = "directive"
      /\ UNCHANGED <<out_buffer, out_i, varargs>>
      /\ UNCHANGED <<text, fmt, out_length>>
  BY DEF Directive, PrintInv, SameCall
<1>2. \E D \in Seq(Char), T \in Seq(Char) :
        /\ Ends(fmt, fmt_i + 1, D) /\ Ends(text.prints, out_i, T)
        /\ DirectiveOf(D, varargs, T, digit_index' + 1) /\ digit_index' \in {1, 7, 15}
  <2>1. CASE print_pc = "text"
    <3>1. FormatChar = "%" /\ digit_index' = 7 /\ 7 + 1 = 8
      BY <2>1 DEF Directive
    <3> QED
      BY <1>1, <2>1, <3>1, TextFirst
  <2>2. CASE print_pc = "directive"
    <3>1. FormatChar \in Modifier
          /\ digit_index' = IF FormatChar \in {"l", "L"} THEN 15 ELSE 1
      BY <2>2 DEF Directive, Modifier
    <3>2. PICK D \in Seq(Char), T \in Seq(Char) :
            AtDirective(D, T) /\ D[1] = FormatChar
              /\ FirstSays(D, varargs, T, digit_index + 1)
      BY <2>2, DirectiveChar
    <3>3. PICK E \in Seq(Char) :
            D = <<FormatChar>> \o E
              /\ DirectiveOf(E, varargs, T, IF FormatChar \in {"l", "L"} THEN 16 ELSE 2)
      BY <3>1, <3>2 DEF FirstSays, DirectiveGoesOn
    <3>4. digit_index' \in {1, 7, 15}
          /\ digit_index' + 1 = IF FormatChar \in {"l", "L"} THEN 16 ELSE 2
      BY <3>1
    <3>5. FormatChar \in Char /\ fmt \in Seq(Char) /\ fmt_i \in Nat
      BY <1>1, <3>2, CallTypes DEF FirstSays, CallInv
    <3>6. Ends(fmt, fmt_i + 1, E)
      BY <3>2, <3>3, <3>5, EndsWithFirst DEF AtDirective
    <3> QED
      BY <3>2, <3>3, <3>4, <3>6 DEF AtDirective
  <2> QED
    BY <2>1, <2>2 DEF Directive
<1>3. PICK D \in Seq(Char), T \in Seq(Char) :
        /\ Ends(fmt, fmt_i + 1, D) /\ Ends(text.prints, out_i, T)
        /\ DirectiveOf(D, varargs, T, digit_index' + 1) /\ digit_index' \in {1, 7, 15}
  BY <1>2
<1>4. AtDirective(D, T)'
  BY <1>1, <1>3 DEF AtDirective
<1>5. CallInv'
  BY <1>1, <1>3 DEF CallInv
<1>6. Written' /\ Room'
  BY <1>1 DEF Written, Room
<1>7. PrintsText'
  BY <1>1 DEF PrintsText
<1> QED
  BY <1>1, <1>4, <1>5, <1>6, <1>7 DEF PrintInv

LEMMA HexTextType ==
  ASSUME NEW n \in 1 .. 16, NEW value \in Numbers
  PROVE  HexText(n, value) \in Seq(Char)
<1>1. value \in [0 .. 15 -> 0 .. 15] /\ Digits \in [1 .. 16 -> Glyphs]
  BY FormatAssumption
<1>2. ASSUME NEW k \in 1 .. n PROVE Digits[value[n - k] + 1] \in Char
  <2>1. n - k \in 0 .. 15
    OBVIOUS
  <2>2. value[n - k] + 1 \in 1 .. 16
    BY <1>1, <2>1
  <2> QED
    BY <1>1, <2>2 DEF Char
<1>3. HexText(n, value) \in [1 .. n -> Char]
  BY <1>2 DEF HexText
<1>4. n \in Nat
  OBVIOUS
<1> QED
  BY <1>3, <1>4, SeqDef

LEMMA ConvertPrints ==
  ASSUME PrintInv, Convert, SameCall
  PROVE  PrintInv'
<1>1. /\ CallInv /\ Written /\ print_pc = "directive" /\ print_pc' = "copying"
      /\ UNCHANGED <<out_buffer, fmt_i, out_i, digit_index>>
      /\ UNCHANGED <<text, fmt, out_length>>
      /\ varargs' = Tail(varargs)
  BY DEF Convert, PrintInv, SameCall
<1>2. PICK D \in Seq(Char), T \in Seq(Char) :
        AtDirective(D, T) /\ D[1] = FormatChar /\ FirstSays(D, varargs, T, digit_index + 1)
  BY <1>1, DirectiveChar
<1>3. FormatChar \in Char /\ fmt \in Seq(Char) /\ fmt_i \in Nat
  BY <1>1, <1>2, CallTypes DEF FirstSays, CallInv
<1>4. \E a \in StringArguments \cup Numbers, v \in Texts :
        /\ D = <<FormatChar>> \o Spelled(v) /\ varargs = <<a>> \o v.arguments
        /\ rest' \in Seq(Char) /\ T = rest' \o v.prints
  <2>1. ASSUME NEW a \in StringArguments \cup Numbers, NEW v \in Texts,
               varargs = <<a>> \o v.arguments
        PROVE  Head(varargs) = a
    BY <2>1, TextTypes, HeadAndTail
  <2>2. CASE FormatChar \in {"s", "S"}
    <3>1. PICK a \in StringArguments, v \in Texts : StringOf(D, varargs, T, FormatChar, a, v)
      BY <1>2, <2>2 DEF FirstSays
    <3>2. D = <<FormatChar>> \o Spelled(v) /\ varargs = <<a>> \o v.arguments
          /\ T = a \o v.prints
      BY <3>1 DEF StringOf
    <3>3. rest' = a
      BY <2>1, <2>2, <3>2 DEF Convert
    <3>4. a \in Seq(Char)
      <4>1. a \in Seq(Glyphs) /\ Glyphs \subseteq Char
        BY FormatAssumption DEF Char
      <4> QED
        BY <4>1, SeqMonotonic
    <3> QED
      BY <3>2, <3>3, <3>4
  <2>3. CASE FormatChar \in {"x", "X"}
    <3>1. PICK a \in Numbers, v \in Texts :
            NumberOf(D, varargs, T, digit_index + 1, FormatChar, a, v)
      BY <1>2, <2>3 DEF FirstSays
    <3>2. D = <<FormatChar>> \o Spelled(v) /\ varargs = <<a>> \o v.arguments
          /\ T = HexText(digit_index + 1, a) \o v.prints
      BY <3>1 DEF NumberOf
    <3>3. FormatChar \notin {"s", "S"}
      BY <2>3
    <3>4. rest' = HexText(digit_index + 1, a)
      BY <2>1, <3>2, <3>3 DEF Convert
    <3>5. digit_index + 1 \in 1 .. 16
      BY <1>1 DEF CallInv
    <3> QED
      BY <3>2, <3>4, <3>5, HexTextType
  <2> QED
    BY <2>2, <2>3 DEF Convert
<1>5. PICK a \in StringArguments \cup Numbers, v \in Texts :
        /\ D = <<FormatChar>> \o Spelled(v) /\ varargs = <<a>> \o v.arguments
        /\ rest' \in Seq(Char) /\ T = rest' \o v.prints
  BY <1>4
<1>6. Ends(fmt, fmt_i + 1, Spelled(v))
  BY <1>2, <1>3, <1>5, TextTypes, EndsWithFirst DEF AtDirective
<1>7. varargs' = v.arguments
  BY <1>1, <1>5, TextTypes, HeadAndTail
<1>8. AtCopy(v)'
  BY <1>1, <1>2, <1>5, <1>6, <1>7 DEF AtCopy, AtDirective
<1>9. CallInv'
  BY <1>1 DEF CallInv
<1>10. Written' /\ PrintsText'
  BY <1>1 DEF Written, PrintsText
<1> QED
  BY <1>1, <1>8, <1>9, <1>10 DEF PrintInv

LEMMA CopyPrints ==
  ASSUME PrintInv, Copy, SameCall
  PROVE  PrintInv'
<1>1. /\ CallInv /\ Written /\ print_pc = "copying" /\ print_pc' \in {"copying", "text"}
      /\ UNCHANGED <<digit_index, varargs>>
      /\ UNCHANGED <<text, fmt, out_length>>
  BY DEF Copy, PrintInv, SameCall
<1>2. PICK u \in Texts : AtCopy(u)
  BY <1>1 DEF PrintInv
<1>3. /\ text.prints \in Seq(Char) /\ u.prints \in Seq(Char) /\ rest \in Seq(Char)
      /\ out_i \in Nat /\ fmt_i \in Nat
  BY <1>1, <1>2, CallTypes, TextTypes DEF AtCopy, CallInv
<1>4. CASE rest # <<>> /\ Room
  <2> DEFINE c == rest[1]
  <2>1. /\ c \in Char /\ Head(rest) = c /\ Tail(rest) \in Seq(Char)
        /\ rest = <<c>> \o Tail(rest)
    BY <1>3, <1>4, FirstAndRest
  <2>2. /\ Put(c) /\ rest' = Tail(rest) /\ UNCHANGED <<fmt_i, print_pc>>
    BY <1>4, <2>1 DEF Copy
  <2>3. Tail(rest) \o u.prints \in Seq(Char)
    BY <1>3, <2>1, ConcatProperties
  <2>4. rest \o u.prints = <<c>> \o (Tail(rest) \o u.prints)
    <3>1. <<c>> \in Seq(Char)
      BY <2>1
    <3> HIDE DEF c
    <3> QED
      BY <1>3, <2>1, <3>1, ConcatAssociative
  <2> HIDE DEF c
  <2>5. /\ text.prints[out_i + 1] = c /\ out_i + 1 <= Len(text.prints)
        /\ Ends(text.prints, out_i + 1, Tail(rest) \o u.prints)
    <3>1. Ends(text.prints, out_i, <<c>> \o (Tail(rest) \o u.prints))
      BY <1>2, <2>4 DEF AtCopy
    <3>2. PICK r \in Seq(Char) : r = Tail(rest) \o u.prints
      BY <2>3
    <3>3. Ends(text.prints, out_i, <<c>> \o r) /\ c \in Char
      BY <2>1, <3>1, <3>2
    <3>4. text.prints[out_i + 1] = c /\ out_i + 1 <= Len(text.prints)
          /\ Ends(text.prints, out_i + 1, r)
      BY <1>3, <3>3, EndsWithFirst
    <3> QED
      BY <3>2, <3>4
  <2>6. /\ Written' /\ out_i' = out_i + 1
        /\ out_buffer' \in [0 .. OutSize - 1 -> Char \cup {Untouched}]
    BY <1>1, <1>4, <2>1, <2>2, <2>5, PutPrints
  <2>7. CallInv'
    BY <1>1, <2>2, <2>6 DEF CallInv
  <2>8. AtCopy(u)'
    BY <1>1, <1>2, <2>1, <2>2, <2>5, <2>6 DEF AtCopy
  <2>9. PrintsText'
    BY <1>1, <2>2 DEF PrintsText
  <2> QED
    BY <1>1, <2>2, <2>6, <2>7, <2>8, <2>9 DEF PrintInv
<1>5. CASE ~(rest # <<>> /\ Room)
  <2>1. fmt_i' = fmt_i + 1 /\ print_pc' = "text" /\ UNCHANGED <<out_buffer, out_i, rest>>
    BY <1>5 DEF Copy
  <2>2. ASSUME Room PROVE AtText(u)'
    <3>1. rest \o u.prints = u.prints
      BY <1>3, <1>5, <2>2, ConcatEmptySeq
    <3> QED
      BY <1>1, <1>2, <2>1, <3>1 DEF AtCopy, AtText
  <2>3. Room' <=> Room
    BY <1>1, <2>1 DEF Room
  <2>4. CallInv'
    BY <1>1, <1>3, <2>1 DEF CallInv
  <2>5. Written' /\ PrintsText'
    BY <1>1, <2>1 DEF Written, PrintsText
  <2> QED
    BY <2>1, <2>2, <2>3, <2>4, <2>5 DEF PrintInv
<1> QED
  BY <1>4, <1>5

(* vsnprintf prints the text, cut to what the buffer holds with its NUL,   *)
(* and touches nothing behind, for every text, however the format spells   *)
(* it, and every size of the buffer.                                       *)
THEOREM TextIsPrinted == ConsoleSpec => []PrintsText
<1>1. ConsoleInit => PrintInv
  BY PrintInvInit
<1>2. PrintInv /\ [ConsoleNext]_consoleVars => PrintInv'
  <2> SUFFICES ASSUME PrintInv, [ConsoleNext]_consoleVars PROVE PrintInv'
    OBVIOUS
  <2>1. CASE Format
    <3>1. SameCall
      BY <2>1 DEF Format, SameCall
    <3> QED
      BY <2>1, <3>1, EndOfTextPrints, PutCharPrints, DirectivePrints, ConvertPrints,
         CopyPrints DEF Format
  <2>2. CASE SelectMode \/ UNCHANGED consoleVars
    <3>1. UNCHANGED formatVars
      BY <2>2 DEF SelectMode, consoleVars
    <3> QED
      BY <3>1 DEF formatVars, PrintInv, CallInv, Written, Room, AtText, AtDirective,
         AtCopy, PrintsText
  <2> QED
    BY <2>1, <2>2 DEF ConsoleNext
<1>3. PrintInv => PrintsText
  BY DEF PrintInv
<1> QED
  BY <1>1, <1>2, <1>3, PTL DEF ConsoleSpec
=============================================================================
