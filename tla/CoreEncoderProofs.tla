--------------------------- MODULE CoreEncoderProofs ---------------------------
(***************************************************************************)
(* Proofs about CoreEncoder, for all budgets, sizes and kinds of encoder.  *)
(* The rate over a stretch of frames is bounded because the reservoir says *)
(* at its end what the stretch has saved.                                  *)
(***************************************************************************)
EXTENDS CoreEncoder, TLAPS

Bounded == LowDelay \/ ~config.vbr

(* What the frames after i spent and what the reservoir holds now were     *)
(* there at i or came since.                                               *)
SpentIsSaved ==
    Bounded =>
        \A i \in 0..Len(frames) :
            Total(Len(frames)) - Total(i) + reservoir.fullness
                <= (Len(frames) - i) * reservoir.nominal + reservoir.capacity

(* Nothing of what came is lost. *)
SavedIsSpent ==
    Fills =>
        \A i \in 0..Len(frames) :
            Total(Len(frames)) - Total(i) + reservoir.fullness
                >= (Len(frames) - i) * reservoir.nominal

IInv ==
    /\ TypeOK
    /\ RateIsKept
    /\ RateIsFilled
    /\ SpentIsSaved
    /\ SavedIsSpent

-----------------------------------------------------------------------------
LEMMA BudgetsAreNumbers ==
    /\ \A n \in Nominals : n \in Nat /\ n >= 1
    /\ \A c \in Capacities : c \in Nat
  BY BudgetsAreBits

LEMMA ReservoirFields ==
    ASSUME NEW r \in Reservoir
    PROVE  /\ r.nominal \in Nominals /\ r.nominal \in Nat
           /\ r.capacity \in Capacities /\ r.capacity \in Nat
           /\ r.fullness \in Nat
           /\ r = [nominal |-> r.nominal, capacity |-> r.capacity,
                   fullness |-> r.fullness]
  BY BudgetsAreNumbers DEF Reservoir

(* What is committed leaves at most what was available, and exactly that   *)
(* if it was large enough.                                                 *)
LEMMA CommittedSaves ==
    ASSUME NEW r \in Reservoir, NEW b \in Nat, Accepts(r, b)
    PROVE  /\ Committed(r, b) \in Reservoir
           /\ Committed(r, b).nominal = r.nominal
           /\ Committed(r, b).capacity = r.capacity
           /\ Committed(r, b).fullness <= r.capacity
           /\ Committed(r, b).fullness <= r.nominal + r.fullness - 8 * b
           /\ 8 * b >= MinimumCbr(r) =>
                 Committed(r, b).fullness = r.nominal + r.fullness - 8 * b
  <1> DEFINE left == Available(r) - 8 * b
             f == Smaller(left, r.capacity)
  <1>1. /\ r.nominal \in Nat /\ r.capacity \in Nat /\ r.fullness \in Nat
        /\ r.nominal \in Nominals /\ r.capacity \in Capacities
    BY ReservoirFields
  <1>2. left \in Nat /\ left = r.nominal + r.fullness - 8 * b
    BY <1>1 DEF Accepts, Available
  <1>3. f \in Nat /\ f <= left /\ f <= r.capacity /\ (left <= r.capacity => f = left)
    BY <1>1, <1>2 DEF Smaller
  <1>4. 8 * b >= MinimumCbr(r) => left <= r.capacity
    BY <1>1, <1>2 DEF MinimumCbr, Larger, Available
  <1>5. Committed(r, b) = [r EXCEPT !.fullness = f]
    BY DEF Committed
  <1> HIDE DEF f, left
  <1>6. Committed(r, b) = [nominal |-> r.nominal, capacity |-> r.capacity, fullness |-> f]
    BY <1>5, ReservoirFields DEF Reservoir
  <1> QED
    BY <1>1, <1>2, <1>3, <1>4, <1>6 DEF Reservoir

LEMMA FilledCovers ==
    ASSUME NEW r \in Reservoir, NEW b \in Nat
    PROVE  /\ Filled(r, b) \in Nat
           /\ Filled(r, b) >= b
           /\ 8 * Filled(r, b) >= MinimumCbr(r)
           /\ Filled(r, b) = b \/ 8 * Filled(r, b) <= MinimumCbr(r) + 7
  <1>1. MinimumCbr(r) \in Nat
    BY ReservoirFields DEF MinimumCbr, Larger, Available
  <1>2. PICK q \in Nat : /\ q = (MinimumCbr(r) + 7) \div 8
                         /\ 8 * q <= MinimumCbr(r) + 7
                         /\ MinimumCbr(r) + 7 < 8 * q + 8
    BY <1>1
  <1> QED
    BY <1>1, <1>2 DEF Filled, Larger

-----------------------------------------------------------------------------
(* One frame more, in numbers: t sums what was spent. *)
LEMMA SpendingGrows ==
    ASSUME NEW n \in Nat, NEW nominal \in Nat, NEW capacity \in Nat,
           NEW old \in Nat, NEW new \in Nat, NEW cost \in Nat,
           NEW t \in [0..n + 1 -> Nat],
           t[n + 1] = t[n] + cost,
           new <= nominal + old - cost, new <= capacity,
           \A i \in 0..n : t[n] - t[i] + old <= (n - i) * nominal + capacity
    PROVE  \A i \in 0..n + 1 :
              t[n + 1] - t[i] + new <= (n + 1 - i) * nominal + capacity
  <1> SUFFICES ASSUME NEW i \in 0..n + 1
               PROVE  t[n + 1] - t[i] + new <= (n + 1 - i) * nominal + capacity
    OBVIOUS
  <1>1. t[n + 1] \in Nat /\ t[n] \in Nat /\ t[i] \in Nat
    OBVIOUS
  <1>2. CASE i \in 0..n
    <2>1. PICK p \in Int : p = (n - i) * nominal
      OBVIOUS
    <2>2. (n + 1 - i) * nominal = p + nominal
      BY <2>1
    <2>3. PICK a \in Nat, b \in Nat, c \in Nat :
             a = t[n] /\ b = t[i] /\ c = t[n + 1]
      BY <1>1
    <2>4. a - b + old <= p + capacity
      BY <1>2, <2>1, <2>3
    <2>5. /\ a \in Nat /\ b \in Nat /\ c \in Nat /\ c = a + cost
          /\ cost \in Nat /\ nominal \in Nat /\ old \in Nat /\ new \in Nat
          /\ p \in Int /\ capacity \in Nat /\ new <= nominal + old - cost
      BY <2>3
    <2>6. c - b + new <= p + nominal + capacity
      BY ONLY <2>4, <2>5
    <2> QED
      BY ONLY <2>2, <2>3, <2>6
  <1>3. CASE i = n + 1
    <2>1. (n + 1 - i) * nominal = 0
      BY <1>3
    <2> QED
      BY <1>1, <1>3, <2>1
  <1> QED
    BY <1>2, <1>3

LEMMA SavingGrows ==
    ASSUME NEW n \in Nat, NEW nominal \in Nat,
           NEW old \in Nat, NEW new \in Nat, NEW cost \in Nat,
           NEW t \in [0..n + 1 -> Nat],
           t[n + 1] = t[n] + cost,
           new >= nominal + old - cost,
           \A i \in 0..n : t[n] - t[i] + old >= (n - i) * nominal
    PROVE  \A i \in 0..n + 1 : t[n + 1] - t[i] + new >= (n + 1 - i) * nominal
  <1> SUFFICES ASSUME NEW i \in 0..n + 1
               PROVE  t[n + 1] - t[i] + new >= (n + 1 - i) * nominal
    OBVIOUS
  <1>1. t[n + 1] \in Nat /\ t[n] \in Nat /\ t[i] \in Nat
    OBVIOUS
  <1>2. CASE i \in 0..n
    <2>1. PICK p \in Int : p = (n - i) * nominal
      OBVIOUS
    <2>2. (n + 1 - i) * nominal = p + nominal
      BY <2>1
    <2>3. PICK a \in Nat, b \in Nat, c \in Nat :
             a = t[n] /\ b = t[i] /\ c = t[n + 1]
      BY <1>1
    <2>4. a - b + old >= p
      BY <1>2, <2>1, <2>3
    <2>5. /\ a \in Nat /\ b \in Nat /\ c \in Nat /\ c = a + cost
          /\ cost \in Nat /\ nominal \in Nat /\ old \in Nat /\ new \in Nat
          /\ p \in Int /\ new >= nominal + old - cost
      BY <2>3
    <2>6. c - b + new >= p + nominal
      BY ONLY <2>4, <2>5
    <2> QED
      BY ONLY <2>2, <2>3, <2>6
  <1>3. CASE i = n + 1
    <2>1. (n + 1 - i) * nominal = 0
      BY <1>3
    <2> QED
      BY <1>1, <1>3, <2>1
  <1> QED
    BY <1>2, <1>3

(* A frame that is returned keeps the bounds. *)
LEMMA GrowthHolds ==
    ASSUME IInv, NEW bytes \in Nat, NEW frame \in Frame,
           config' = config,
           frames' = Append(frames, frame),
           frame.total = Total(Len(frames)) + 8 * bytes,
           Bounded => /\ Accepts(reservoir, bytes)
                      /\ reservoir' = Committed(reservoir, bytes),
           ~Bounded => reservoir' = reservoir,
           Fills => 8 * bytes >= MinimumCbr(reservoir)
    PROVE  /\ frames' \in Seq(Frame)
           /\ reservoir' \in Reservoir
           /\ reservoir'.fullness <= reservoir'.capacity
           /\ RateIsKept' /\ RateIsFilled'
           /\ SpentIsSaved' /\ SavedIsSpent'
  <1>1. /\ frames \in Seq(Frame) /\ reservoir \in Reservoir
        /\ reservoir.fullness <= reservoir.capacity
    BY DEF IInv, TypeOK
  <1>2. PICK n \in Nat : n = Len(frames)
    BY <1>1
  <1>3. /\ frames' \in Seq(Frame)
        /\ Len(frames') = n + 1
        /\ frames'[n + 1] = frame
        /\ \A i \in 1..n : frames'[i] = frames[i] /\ frames[i] \in Frame
    BY <1>1, <1>2
  <1>4. PICK t \in [0..n + 1 -> Nat] :
           /\ \A i \in 0..n : t[i] = Total(i)
           /\ \A i \in 0..n + 1 : t[i] = Total(i)'
           /\ t[n + 1] = t[n] + 8 * bytes
    <2> DEFINE u == [i \in 0..n + 1 |-> IF i = 0 THEN 0 ELSE frames'[i].total]
    <2>1. \A f \in Frame : f.total \in Nat
      BY DEF Frame
    <2>2. \A i \in 1..n + 1 : frames'[i] \in Frame
      BY <1>2, <1>3
    <2>3. u \in [0..n + 1 -> Nat]
      BY <1>2, <2>1, <2>2
    <2>4. \A i \in 0..n + 1 : u[i] = Total(i)'
      BY DEF Total
    <2>5. \A i \in 0..n : u[i] = Total(i)
      BY <1>2, <1>3 DEF Total
    <2>6. u[n + 1] = frame.total
      BY <1>2, <1>3
    <2>7. u[n] = Total(n)
      BY <1>2, <2>5
    <2> QED
      BY <1>2, <2>3, <2>4, <2>5, <2>6, <2>7
  <1>5. /\ Bounded' = Bounded /\ Fills' = Fills
        /\ Fills => Bounded
    BY DEF Bounded, Fills, LowDelay
  <1>6. /\ reservoir' \in Reservoir
        /\ reservoir'.fullness <= reservoir'.capacity
        /\ reservoir'.nominal = reservoir.nominal
        /\ reservoir'.capacity = reservoir.capacity
    BY <1>1, CommittedSaves
  <1>7. PICK nominal \in Nat, capacity \in Nat, old \in Nat, new \in Nat :
           /\ nominal = reservoir.nominal /\ capacity = reservoir.capacity
           /\ old = reservoir.fullness /\ new = reservoir'.fullness
    BY <1>1, <1>6, ReservoirFields
  <1>8. /\ old <= capacity /\ new <= capacity
        /\ Bounded => new <= nominal + old - 8 * bytes
        /\ Fills => new = nominal + old - 8 * bytes
    BY <1>1, <1>5, <1>6, <1>7, CommittedSaves
  <1>9. /\ Bounded => \A i \in 0..n :
                         t[n] - t[i] + old <= (n - i) * nominal + capacity
        /\ Fills => \A i \in 0..n : t[n] - t[i] + old >= (n - i) * nominal
    <2>1. \A i \in 0..n : t[i] = Total(i)
      BY <1>4
    <2>2. t[n] = Total(Len(frames))
      BY <1>2, <2>1
    <2>3. CASE Bounded
      BY <1>2, <1>7, <2>1, <2>2, <2>3, <1>5 DEF IInv, SpentIsSaved, SavedIsSpent
    <2>4. CASE ~Bounded
      BY <1>5, <2>4
    <2> QED
      BY <2>3, <2>4
  <1>10. 8 * bytes \in Nat
    OBVIOUS
  <1>11. Bounded => \A i \in 0..n + 1 :
                       t[n + 1] - t[i] + new <= (n + 1 - i) * nominal + capacity
    <2> SUFFICES ASSUME Bounded
                 PROVE  \A i \in 0..n + 1 :
                           t[n + 1] - t[i] + new <= (n + 1 - i) * nominal + capacity
      OBVIOUS
    <2> PICK cost \in Nat : cost = 8 * bytes
      BY <1>10
    <2>1. new <= nominal + old - cost /\ new <= capacity
      BY <1>8, <1>10
    <2>2. \A i \in 0..n : t[n] - t[i] + old <= (n - i) * nominal + capacity
      BY <1>9
    <2>3. t[n + 1] = t[n] + cost
      BY <1>4
    <2> QED
      BY ONLY n \in Nat, nominal \in Nat, capacity \in Nat, old \in Nat,
              new \in Nat, cost \in Nat, t \in [0..n + 1 -> Nat],
              <2>1, <2>2, <2>3, SpendingGrows
  <1>12. Fills => \A i \in 0..n + 1 :
                     t[n + 1] - t[i] + new >= (n + 1 - i) * nominal
    <2> SUFFICES ASSUME Fills
                 PROVE  \A i \in 0..n + 1 :
                           t[n + 1] - t[i] + new >= (n + 1 - i) * nominal
      OBVIOUS
    <2> PICK cost \in Nat : cost = 8 * bytes
      BY <1>10
    <2>1. new >= nominal + old - cost
      BY <1>8, <1>10
    <2>2. \A i \in 0..n : t[n] - t[i] + old >= (n - i) * nominal
      BY <1>9
    <2>3. t[n + 1] = t[n] + cost
      BY <1>4
    <2> QED
      BY ONLY n \in Nat, nominal \in Nat, old \in Nat, new \in Nat, cost \in Nat,
              t \in [0..n + 1 -> Nat], <2>1, <2>2, <2>3, SavingGrows
  <1>13. SpentIsSaved' /\ SavedIsSpent'
    <2>1. /\ Len(frames') = n + 1
          /\ reservoir'.nominal = nominal /\ reservoir'.capacity = capacity
          /\ reservoir'.fullness = new
          /\ Bounded' = Bounded /\ Fills' = Fills
      BY <1>3, <1>5, <1>6, <1>7
    <2>2. Total(n + 1)' = t[n + 1]
      BY <1>2, <1>4
    <2>3. \A i \in 0..n + 1 : Total(i)' = t[i]
      BY <1>4
    <2>4. SpentIsSaved'
      BY ONLY <1>11, <2>1, <2>2, <2>3 DEF SpentIsSaved
    <2>5. SavedIsSpent'
      BY ONLY <1>12, <2>1, <2>2, <2>3 DEF SavedIsSpent
    <2> QED
      BY <2>4, <2>5
  <1>14. ASSUME NEW j \in 0..n + 1, NEW i \in 0..j
         PROVE  /\ Bounded => t[j] - t[i] <= (j - i) * nominal + capacity
                /\ Fills => t[j] - t[i] >= (j - i) * nominal - capacity
    <2>1. CASE j \in 0..n
      <3>1. i \in 0..n
        BY <1>2, <2>1
      <3>2. t[j] = Total(j) /\ t[i] = Total(i)
        BY <1>4, <2>1, <3>1
      <3>3. Bounded => Total(j) - Total(i)
                          <= (j - i) * reservoir.nominal + reservoir.capacity
        BY <1>2, <2>1 DEF IInv, RateIsKept, Bounded
      <3>4. Fills => Total(j) - Total(i)
                        >= (j - i) * reservoir.nominal - reservoir.capacity
        BY <1>2, <2>1 DEF IInv, RateIsFilled
      <3> QED
        BY <1>7, <3>2, <3>3, <3>4
    <2>2. CASE j = n + 1
      <3>1. i \in 0..n + 1 /\ t[j] \in Nat /\ t[i] \in Nat
        BY <2>2
      <3>2. PICK p \in Int : p = (n + 1 - i) * nominal
        BY <3>1
      <3>3. /\ Bounded => t[j] - t[i] + new <= p + capacity
            /\ Fills => t[j] - t[i] + new >= p
        BY <2>2, <1>11, <1>12, <3>1, <3>2
      <3>4. (j - i) * nominal = p
        BY <2>2, <3>2
      <3>5. PICK a \in Nat, b \in Nat : a = t[j] /\ b = t[i]
        BY <3>1
      <3>6. /\ Bounded => a - b + new <= p + capacity
            /\ Fills => a - b + new >= p
        BY <3>3, <3>5
      <3>7. /\ a \in Nat /\ b \in Nat /\ p \in Int
            /\ new \in Nat /\ capacity \in Nat /\ new <= capacity
        BY <1>8
      <3>8. /\ Bounded => a - b <= p + capacity
            /\ Fills => a - b >= p - capacity
        BY ONLY <3>6, <3>7
      <3> QED
        BY ONLY <3>4, <3>5, <3>8
    <2> QED
      BY <1>2, <2>1, <2>2
  <1>15. RateIsKept' /\ RateIsFilled'
    <2>1. \A j \in 0..n + 1 : \A i \in 0..j :
             /\ t[j] = Total(j)' /\ t[i] = Total(i)'
      BY <1>2, <1>4
    <2>2. /\ Len(frames') = n + 1
          /\ reservoir'.nominal = nominal /\ reservoir'.capacity = capacity
          /\ Bounded' = Bounded /\ Fills' = Fills
      BY <1>3, <1>5, <1>6, <1>7
    <2>3. RateIsKept'
      BY ONLY <1>14, <2>1, <2>2 DEF RateIsKept, Bounded
    <2>4. RateIsFilled'
      BY ONLY <1>14, <2>1, <2>2 DEF RateIsFilled
    <2> QED
      BY <2>3, <2>4
  <1> QED
    BY <1>3, <1>6, <1>13, <1>15

(* A frame that is not returned changes none of them. *)
LEMMA RatesStay ==
    ASSUME IInv, config' = config, UNCHANGED <<reservoir, frames>>
    PROVE  /\ frames' \in Seq(Frame)
           /\ reservoir' \in Reservoir
           /\ reservoir'.fullness <= reservoir'.capacity
           /\ RateIsKept' /\ RateIsFilled'
           /\ SpentIsSaved' /\ SavedIsSpent'
  <1>1. \A i : Total(i)' = Total(i)
    BY DEF Total
  <1>2. frames' = frames /\ reservoir' = reservoir /\ config' = config
    OBVIOUS
  <1> QED
    BY <1>1, <1>2
       DEF IInv, TypeOK, RateIsKept, RateIsFilled, SpentIsSaved, SavedIsSpent,
           Bounded, Fills, LowDelay

LEMMA TypeFields ==
    ASSUME IInv
    PROVE  /\ config \in Config /\ config.sbr \in BOOLEAN
           /\ reservoir \in Reservoir
           /\ reservoir.fullness <= reservoir.capacity
           /\ window \in Sequences \cup Shapes
           /\ correction \in [pe : Nat, bits : Nat]
           /\ header \in BOOLEAN /\ envelope \in Nat /\ analysed \in Nat
           /\ frames \in Seq(Frame)
  BY DEF IInv, TypeOK, Config

LEMMA AnalyseHolds ==
    ASSUME IInv, NEW attack \in BOOLEAN, Analyse(attack)
    PROVE  /\ config' = config
           /\ analysed' \in Nat
           /\ window' \in Sequences \cup Shapes
  <1>1. Switched(window, attack) \in Sequences
    BY DEF Switched, Sequences
  <1>2. Shaped(attack) \in Shapes
    BY DEF Shaped, Shapes
  <1> QED
    BY <1>1, <1>2, TypeFields DEF Analyse

LEMMA PreparedHolds ==
    ASSUME IInv, analysed' \in Nat, PrepareSbr
    PROVE  envelope' \in Nat
  BY TypeFields DEF PrepareSbr

LEMMA GrantedHolds ==
    ASSUME IInv, analysed' \in Nat
    PROVE  /\ Granted(correction) \in [pe : Nat, bits : Nat]
           /\ Quantized(correction) \in [pe : Nat, bits : Nat]
  BY TypeFields DEF Granted, Quantized

LEMMA FittedHolds ==
    ASSUME NEW wanted \in Sizes, NEW least \in Sizes, NEW grant,
           NEW bytes \in Fitted(wanted, least, grant)
    PROVE  bytes \in Nat
  <1>1. Sizes \subseteq Nat
    BY SizesAreBytes
  <1> QED
    BY <1>1 DEF Fitted

(* The frame that Send appends. *)
LEMMA SendHolds ==
    ASSUME IInv, NEW bytes \in Nat, NEW reference \in Nat,
           analysed' \in Nat, window' \in Sequences \cup Shapes,
           config' = config,
           Bounded => /\ Accepts(reservoir, bytes)
                      /\ reservoir' = Committed(reservoir, bytes),
           ~Bounded => reservoir' = reservoir,
           Fills => 8 * bytes >= MinimumCbr(reservoir),
           Send(bytes, reference)
    PROVE  /\ frames' \in Seq(Frame)
           /\ reservoir' \in Reservoir
           /\ reservoir'.fullness <= reservoir'.capacity
           /\ RateIsKept' /\ RateIsFilled'
           /\ SpentIsSaved' /\ SavedIsSpent'
           /\ header' \in BOOLEAN
           /\ outcome' = "sent"
  <1> DEFINE total == Total(Len(frames)) + 8 * bytes
             frame == [id |-> analysed', window |-> window',
                       headed |-> config.sbr /\ ~header,
                       reference |-> reference, total |-> total]
  <1>1. Total(Len(frames)) \in Nat
    <2>1. frames \in Seq(Frame) /\ Len(frames) \in Nat
      BY TypeFields
    <2>2. CASE Len(frames) = 0
      BY <2>2 DEF Total
    <2>3. CASE Len(frames) # 0
      <3>1. frames[Len(frames)] \in Frame
        BY <2>1, <2>3
      <3>2. frames[Len(frames)].total \in Nat
        BY <3>1 DEF Frame
      <3> QED
        BY <2>3, <3>2 DEF Total
    <2> QED
      BY <2>2, <2>3
  <1>2. total \in Nat
    BY <1>1
  <1>3. frames' = Append(frames, frame) /\ header' = config.sbr /\ outcome' = "sent"
    BY DEF Send
  <1> HIDE DEF total
  <1>4. frame \in Frame /\ frame.total = total
    BY <1>2, TypeFields DEF Frame
  <1> HIDE DEF frame
  <1>5. frame.total = Total(Len(frames)) + 8 * bytes
    BY <1>4 DEF total
  <1> QED
    BY <1>3, <1>4, <1>5, TypeFields, GrowthHolds

-----------------------------------------------------------------------------
LEMMA InitHolds == Init => IInv
  <1> SUFFICES ASSUME Init
               PROVE  IInv
    OBVIOUS
  <1>1. PICK nominal \in Nominals, capacity \in Capacities :
           reservoir = IF LowDelay THEN FullReservoir(nominal, capacity)
                       ELSE NewReservoir(nominal, capacity)
    BY DEF Init
  <1>2. nominal \in Nat /\ capacity \in Nat
    BY BudgetsAreNumbers
  <1>3. /\ reservoir \in Reservoir
        /\ reservoir.nominal = nominal /\ reservoir.capacity = capacity
        /\ reservoir.fullness \in Nat
        /\ reservoir.fullness <= reservoir.capacity
    BY <1>1, <1>2 DEF FullReservoir, NewReservoir, Reservoir
  <1>4. frames = <<>> /\ Len(frames) = 0 /\ Total(0) = 0 /\ frames \in Seq(Frame)
    BY DEF Init, Total
  <1>5. TypeOK
    BY <1>3, <1>4 DEF Init, TypeOK, Sequences, Shapes
  <1>6. \A j \in 0..0 : \A i \in 0..j : j = 0 /\ i = 0
    OBVIOUS
  <1>7. (0 - 0) * reservoir.nominal = 0
    BY <1>2, <1>3
  <1>8. RateIsKept /\ RateIsFilled
    BY <1>2, <1>3, <1>4, <1>6, <1>7 DEF RateIsKept, RateIsFilled
  <1>9. SpentIsSaved /\ SavedIsSpent
    BY <1>2, <1>3, <1>4, <1>6, <1>7 DEF SpentIsSaved, SavedIsSpent
  <1> QED
    BY <1>5, <1>8, <1>9 DEF IInv

LEMMA EncodeLcHolds ==
    ASSUME IInv, NEW attack \in BOOLEAN, NEW bytes \in Sizes,
           EncodeLc(attack, bytes)
    PROVE  IInv'
  <1>1. bytes \in Nat
    BY SizesAreBytes
  <1>2. /\ Analyse(attack) /\ Send(bytes, 0) /\ ~LowDelay
        /\ UNCHANGED <<correction, envelope>>
    BY DEF EncodeLc
  <1>3. /\ config' = config /\ analysed' \in Nat
        /\ window' \in Sequences \cup Shapes
    BY <1>2, AnalyseHolds
  <1>4. /\ Bounded => /\ Accepts(reservoir, bytes)
                      /\ reservoir' = Committed(reservoir, bytes)
        /\ ~Bounded => reservoir' = reservoir
        /\ ~Fills
    BY DEF EncodeLc, Bounded, Fills
  <1>5. /\ frames' \in Seq(Frame) /\ reservoir' \in Reservoir
        /\ reservoir'.fullness <= reservoir'.capacity
        /\ RateIsKept' /\ RateIsFilled' /\ SpentIsSaved' /\ SavedIsSpent'
        /\ header' \in BOOLEAN /\ outcome' = "sent"
    BY <1>1, <1>2, <1>3, <1>4, SendHolds
  <1>6. TypeOK'
    BY <1>2, <1>3, <1>5, TypeFields DEF TypeOK
  <1> QED
    BY <1>5, <1>6 DEF IInv

LEMMA EncodeLowDelayHolds ==
    ASSUME IInv, NEW attack \in BOOLEAN, NEW wanted \in Sizes, NEW least \in Sizes,
           EncodeLowDelay(attack, wanted, least)
    PROVE  IInv'
  <1>1. /\ Analyse(attack) /\ PrepareSbr /\ LowDelay
        /\ correction' = Quantized(correction)
    BY DEF EncodeLowDelay
  <1>2. /\ config' = config /\ analysed' \in Nat
        /\ window' \in Sequences \cup Shapes
    BY <1>1, AnalyseHolds
  <1>3. envelope' \in Nat /\ correction' \in [pe : Nat, bits : Nat]
    BY <1>1, <1>2, PreparedHolds, GrantedHolds
  <1>4. PICK grant \in Grants, reference \in References :
           \E bytes \in Fitted(wanted, least, grant) :
              /\ Accepts(reservoir, Coded(bytes))
              /\ reservoir' = Committed(reservoir, Coded(bytes))
              /\ Send(Coded(bytes), reference)
    BY DEF EncodeLowDelay
  <1>5. PICK bytes \in Fitted(wanted, least, grant) :
              /\ Accepts(reservoir, Coded(bytes))
              /\ reservoir' = Committed(reservoir, Coded(bytes))
              /\ Send(Coded(bytes), reference)
    BY <1>4
  <1>6. bytes \in Nat
    BY FittedHolds
  <1>7. /\ Coded(bytes) \in Nat
        /\ Fills => 8 * Coded(bytes) >= MinimumCbr(reservoir)
    BY <1>6, TypeFields, FilledCovers DEF Coded
  <1>8. reference \in Nat
    BY TypeFields DEF References
  <1>9. Bounded
    BY <1>1 DEF Bounded
  <1>10. /\ frames' \in Seq(Frame) /\ reservoir' \in Reservoir
         /\ reservoir'.fullness <= reservoir'.capacity
         /\ RateIsKept' /\ RateIsFilled' /\ SpentIsSaved' /\ SavedIsSpent'
         /\ header' \in BOOLEAN /\ outcome' = "sent"
    BY <1>2, <1>5, <1>7, <1>8, <1>9, SendHolds
  <1>11. TypeOK'
    BY <1>2, <1>3, <1>10, TypeFields DEF TypeOK
  <1> QED
    BY <1>10, <1>11 DEF IInv

(* What fails keeps the reservoir, the header and the frames. *)
LEMMA FailureHolds ==
    ASSUME IInv, NEW attack \in BOOLEAN, NEW what, Analyse(attack), Refuse(what),
           what \in {"failed", "too large", "needless"},
           envelope' \in Nat, correction' \in [pe : Nat, bits : Nat]
    PROVE  IInv'
  <1>1. /\ config' = config /\ analysed' \in Nat
        /\ window' \in Sequences \cup Shapes
    BY AnalyseHolds
  <1>2. UNCHANGED <<reservoir, header, frames>> /\ outcome' = what
    BY DEF Refuse
  <1>3. /\ frames' \in Seq(Frame) /\ reservoir' \in Reservoir
        /\ reservoir'.fullness <= reservoir'.capacity
        /\ RateIsKept' /\ RateIsFilled' /\ SpentIsSaved' /\ SavedIsSpent'
    BY <1>1, <1>2, RatesStay
  <1>4. TypeOK'
    BY <1>1, <1>2, <1>3, TypeFields DEF TypeOK
  <1> QED
    BY <1>3, <1>4 DEF IInv

LEMMA StepHolds == IInv /\ [Next]_vars => IInv'
  <1> SUFFICES ASSUME IInv, [Next]_vars
               PROVE  IInv'
    OBVIOUS
  <1>1. ASSUME NEW attack \in BOOLEAN, NEW bytes \in Sizes, EncodeLc(attack, bytes)
        PROVE  IInv'
    BY <1>1, EncodeLcHolds
  <1>2. ASSUME NEW attack \in BOOLEAN, NEW bytes \in Sizes, RefuseLc(attack, bytes)
        PROVE  IInv'
    BY <1>2, FailureHolds, TypeFields DEF RefuseLc
  <1>3. ASSUME NEW attack \in BOOLEAN, FailLc(attack)
        PROVE  IInv'
    BY <1>3, FailureHolds, TypeFields DEF FailLc
  <1>4. ASSUME NEW attack \in BOOLEAN, NEW wanted \in Sizes, NEW least \in Sizes,
               EncodeLowDelay(attack, wanted, least)
        PROVE  IInv'
    BY <1>4, EncodeLowDelayHolds
  <1>5. ASSUME NEW attack \in BOOLEAN, NEW wanted \in Sizes, NEW least \in Sizes,
               RefuseLowDelay(attack, wanted, least)
        PROVE  IInv'
    <2>1. /\ Analyse(attack) /\ PrepareSbr /\ correction' = Quantized(correction)
          /\ \E what \in {"too large", "needless"} : Refuse(what)
      BY <1>5 DEF RefuseLowDelay
    <2>2. envelope' \in Nat /\ correction' \in [pe : Nat, bits : Nat]
      BY <2>1, AnalyseHolds, PreparedHolds, GrantedHolds
    <2> QED
      BY <2>1, <2>2, FailureHolds
  <1>6. ASSUME NEW attack \in BOOLEAN, FailLowDelay(attack)
        PROVE  IInv'
    <2>1. /\ Analyse(attack) /\ PrepareSbr /\ correction' = Granted(correction)
          /\ Refuse("failed")
      BY <1>6 DEF FailLowDelay
    <2>2. envelope' \in Nat /\ correction' \in [pe : Nat, bits : Nat]
      BY <2>1, AnalyseHolds, PreparedHolds, GrantedHolds
    <2> QED
      BY <2>1, <2>2, FailureHolds
  <1>7. ASSUME NEW attack \in BOOLEAN, RefuseSpectrum(attack)
        PROVE  IInv'
    <2>1. /\ Analyse(attack) /\ PrepareSbr /\ correction' = correction
          /\ Refuse("failed")
      BY <1>7 DEF RefuseSpectrum
    <2>2. envelope' \in Nat /\ correction' \in [pe : Nat, bits : Nat]
      BY <2>1, AnalyseHolds, PreparedHolds, TypeFields
    <2> QED
      BY <2>1, <2>2, FailureHolds
  <1>8. CASE RefuseInput \/ UNCHANGED vars
    <2>1. UNCHANGED vars
      BY <1>8 DEF RefuseInput
    <2>2. config' = config /\ UNCHANGED <<reservoir, frames>>
      BY <2>1 DEF vars, rate
    <2>3. /\ RateIsKept' /\ RateIsFilled' /\ SpentIsSaved' /\ SavedIsSpent'
      BY <2>2, RatesStay
    <2>4. TypeOK'
      BY <2>1 DEF vars, rate, IInv, TypeOK
    <2> QED
      BY <2>3, <2>4 DEF IInv
  <1> QED
    BY <1>1, <1>2, <1>3, <1>4, <1>5, <1>6, <1>7, <1>8 DEF Next

-----------------------------------------------------------------------------
LEMMA Invariance == Spec => []IInv
  BY InitHolds, StepHolds, PTL DEF Spec

(* Every encoder keeps its types, and its reservoir never holds more than  *)
(* its capacity, whatever it encodes and whatever fails.                   *)
THEOREM TypeCorrect == Spec => []TypeOK
  <1>1. IInv => TypeOK
    BY DEF IInv
  <1> QED
    BY <1>1, Invariance, PTL

(* No stretch of frames costs more than its time at the nominal rate and   *)
(* one reservoir.                                                          *)
THEOREM RateBound == Spec => []RateIsKept
  <1>1. IInv => RateIsKept
    BY DEF IInv
  <1> QED
    BY <1>1, Invariance, PTL

(* A filling encoder is never more than one reservoir behind.              *)
THEOREM RateFloor == Spec => []RateIsFilled
  <1>1. IInv => RateIsFilled
    BY DEF IInv
  <1> QED
    BY <1>1, Invariance, PTL

-----------------------------------------------------------------------------
(* What refused frames leave behind *)

(* The header counts as written when there is a frame that has it. *)
HeaderIsInStream == header = (config.sbr /\ frames # <<>>)

(* Frames keep the sequences of the switcher, which is never behind them:  *)
(* if the last call returned a frame, the frame has its sequence.          *)
SwitcherIsPast ==
    ~LowDelay =>
        /\ window \in Sequences
        /\ \A i \in 1..Len(frames) :
              /\ frames[i].window \in Sequences
              /\ frames[i].id <= analysed
              /\ i = Len(frames) /\ frames[i].id = analysed
                    => frames[i].window = window

LInv ==
    /\ HeaderIsInStream
    /\ StreamStandsAlone
    /\ SwitcherIsPast
    /\ WindowsOverlap
    /\ CorrectionIsOfOneFrame

(* Every sequence is followed by one that the overlap allows. *)
LEMMA SwitchedFollows ==
    ASSUME NEW sequence \in Sequences, NEW attack \in BOOLEAN
    PROVE  /\ Switched(sequence, attack) \in Sequences
           /\ Follows(Switched(sequence, attack), sequence)
  BY DEF Switched, Sequences, Follows

(* A call that returns no frame leaves header and frames alone. *)
LEMMA KeptWithoutFrame ==
    ASSUME IInv, LInv, NEW attack \in BOOLEAN, Analyse(attack),
           UNCHANGED <<header, frames>>, CorrectionIsOfOneFrame'
    PROVE  LInv'
  <1>1. /\ config' = config /\ analysed' = analysed + 1
        /\ header' = header /\ frames' = frames
        /\ ~LowDelay => window' = Switched(window, attack)
        /\ LowDelay' = LowDelay
    BY DEF Analyse, LowDelay
  <1>2. HeaderIsInStream' /\ StreamStandsAlone' /\ WindowsOverlap'
    BY <1>1 DEF LInv, HeaderIsInStream, StreamStandsAlone, WindowsOverlap
  <1>3. SwitcherIsPast'
    <2> SUFFICES ASSUME ~LowDelay
                 PROVE  /\ window' \in Sequences
                        /\ \A i \in 1..Len(frames) :
                              /\ frames[i].window \in Sequences
                              /\ frames[i].id <= analysed + 1
                              /\ frames[i].id # analysed + 1
      BY <1>1 DEF SwitcherIsPast
    <2>1. window \in Sequences /\ window' \in Sequences
      BY <1>1, SwitchedFollows DEF LInv, SwitcherIsPast
    <2>2. ASSUME NEW i \in 1..Len(frames)
          PROVE  /\ frames[i].window \in Sequences
                 /\ frames[i].id <= analysed + 1
                 /\ frames[i].id # analysed + 1
      <3>1. frames[i].window \in Sequences /\ frames[i].id <= analysed
        BY <2>2 DEF LInv, SwitcherIsPast
      <3>2. frames[i] \in Frame /\ analysed \in Nat
        BY <2>2, TypeFields
      <3>3. frames[i].id \in Nat
        BY <3>2 DEF Frame
      <3> QED
        BY <3>1, <3>2, <3>3
    <2> QED
      BY <2>1, <2>2
  <1> QED
    BY <1>2, <1>3 DEF LInv

(* A call that returns a frame: the first has the header and stands alone, *)
(* every other follows the one before it.                                  *)
LEMMA KeptWithFrame ==
    ASSUME IInv, LInv, NEW attack \in BOOLEAN, Analyse(attack),
           NEW bytes, NEW reference \in References, Send(bytes, reference),
           CorrectionIsOfOneFrame'
    PROVE  LInv'
  <1>1. /\ config' = config /\ analysed' = analysed + 1
        /\ ~LowDelay => window' = Switched(window, attack)
        /\ LowDelay' = LowDelay
        /\ analysed \in Nat
    BY TypeFields DEF Analyse, LowDelay
  <1>2. PICK frame : /\ frames' = Append(frames, frame)
                     /\ frame.id = analysed' /\ frame.window = window'
                     /\ frame.headed = (config.sbr /\ ~header)
                     /\ frame.reference = reference
    BY DEF Send
  <1>3. PICK n \in Nat : n = Len(frames)
    BY TypeFields
  <1>4. /\ Len(frames') = n + 1 /\ frames'[n + 1] = frame
        /\ \A i \in 1..n : frames'[i] = frames[i]
        /\ frames' # <<>>
        /\ frames # <<>> => n >= 1
        /\ frames = <<>> => n = 0
    BY <1>2, <1>3, TypeFields
  <1>5. HeaderIsInStream'
    BY <1>1, <1>4, TypeFields DEF Send, HeaderIsInStream
  <1>6. StreamStandsAlone'
    <2>1. CASE frames = <<>>
      <3>1. ~header
        BY <2>1, TypeFields DEF LInv, HeaderIsInStream
      <3>2. reference = 0
        BY <3>1 DEF References
      <3>3. frames'[1] = frame
        BY <1>4, <2>1
      <3>4. frames'[1].reference = 0 /\ (config.sbr => frames'[1].headed)
        BY <1>2, <3>1, <3>2, <3>3, Zenon
      <3> QED
        BY <1>1, <3>4 DEF StreamStandsAlone
    <2>2. CASE frames # <<>>
      <3>1. frames'[1] = frames[1]
        BY <1>3, <1>4, <2>2
      <3> QED
        BY <1>1, <2>2, <3>1 DEF LInv, StreamStandsAlone
    <2> QED
      BY <2>1, <2>2
  <1>7. SwitcherIsPast' /\ WindowsOverlap'
    <2>1. CASE LowDelay
      BY <1>1, <2>1 DEF SwitcherIsPast, WindowsOverlap
    <2>2. CASE ~LowDelay
      <3>1. /\ window \in Sequences /\ window' \in Sequences
            /\ Follows(window', window)
        BY <1>1, <2>2, SwitchedFollows DEF LInv, SwitcherIsPast
      <3>2. \A i \in 1..n :
               /\ frames[i].window \in Sequences
               /\ frames[i].id <= analysed /\ frames[i].id \in Nat
               /\ i = n /\ frames[i].id = analysed
                     => frames[i].window = window
        <4>1. \A i \in 1..n : frames[i] \in Frame
          <5>1. frames \in Seq(Frame)
            BY TypeFields
          <5> QED
            BY ONLY <1>3, <5>1
        <4>2. \A i \in 1..n : frames[i].id \in Nat
          BY <4>1 DEF Frame
        <4> QED
          BY <1>3, <2>2, <4>2 DEF LInv, SwitcherIsPast
      <3>3. ASSUME NEW i \in 1..n + 1
            PROVE  /\ frames'[i].window \in Sequences
                   /\ frames'[i].id <= analysed'
                   /\ i = n + 1 /\ frames'[i].id = analysed'
                         => frames'[i].window = window'
        <4>1. CASE i = n + 1
          BY <1>1, <1>2, <1>4, <3>1, <4>1
        <4>2. CASE i \in 1..n
          BY <1>1, <1>4, <3>2, <4>2
        <4> QED
          BY <1>3, <4>1, <4>2
      <3>4. SwitcherIsPast'
        BY <1>4, <3>1, <3>3 DEF SwitcherIsPast
      <3>5. ASSUME NEW i \in 1..n, frames'[i + 1].id = frames'[i].id + 1
            PROVE  Follows(frames'[i + 1].window, frames'[i].window)
        <4>1. frames'[i] = frames[i]
          BY <1>4
        <4>2. CASE i = n
          <5>1. frames[n].id + 1 = analysed + 1
            BY <1>1, <1>2, <1>4, <3>5, <4>1, <4>2
          <5>2. frames[n].window = window
            BY <1>1, <3>2, <4>2, <5>1
          <5> QED
            BY <1>2, <1>4, <3>1, <4>1, <4>2, <5>2
        <4>3. CASE i # n
          <5>1. i \in 1..n - 1 /\ i + 1 \in 1..n
            BY <1>3, <4>3
          <5>2. frames'[i + 1] = frames[i + 1]
            BY <1>4, <5>1
          <5> QED
            BY <1>3, <2>2, <3>5, <4>1, <5>1, <5>2 DEF LInv, WindowsOverlap
        <4> QED
          BY <4>2, <4>3
      <3>6. (n + 1) - 1 = n
        BY <1>3
      <3>7. WindowsOverlap'
        BY <1>4, <3>5, <3>6 DEF WindowsOverlap
      <3> QED
        BY <3>4, <3>7
    <2> QED
      BY <2>1, <2>2
  <1> QED
    BY <1>5, <1>6, <1>7 DEF LInv

(* The correction is of one frame behind every call. *)
LEMMA CorrectionHolds ==
    ASSUME IInv, CorrectionIsOfOneFrame, config' = config, analysed' \in Nat,
           \/ correction' = correction
           \/ correction' = Granted(correction)
           \/ correction' = Quantized(correction)
    PROVE  CorrectionIsOfOneFrame'
  <1>1. Fills' = Fills
    BY DEF Fills, LowDelay
  <1>2. correction \in [pe : Nat, bits : Nat]
    BY TypeFields
  <1>3. CASE ~Fills
    BY <1>1, <1>3 DEF CorrectionIsOfOneFrame
  <1>4. CASE Fills /\ ~UsesCorrection
    <2>1. correction' = correction
      BY <1>4 DEF Granted, Quantized
    <2> QED
      BY <1>1, <2>1 DEF CorrectionIsOfOneFrame
  <1>5. CASE Fills /\ UsesCorrection
    <2>1. Granted(correction) = [pe |-> analysed', bits |-> 0]
      BY <1>5 DEF Granted
    <2>2. Quantized(correction) = [pe |-> analysed', bits |-> analysed']
      BY <1>5, <2>1 DEF Quantized
    <2> QED
      BY <1>1, <2>1, <2>2 DEF CorrectionIsOfOneFrame
  <1> QED
    BY <1>3, <1>4, <1>5

LEMMA LInitHolds == Init => LInv
  <1> SUFFICES ASSUME Init
               PROVE  LInv
    OBVIOUS
  <1>1. frames = <<>> /\ header = FALSE /\ correction = [pe |-> 0, bits |-> 0]
        /\ window = IF LowDelay THEN "Sine" ELSE "OnlyLong"
    BY DEF Init
  <1>2. Len(frames) = 0
    BY <1>1
  <1>3. HeaderIsInStream /\ StreamStandsAlone
    BY <1>1, Zenon DEF HeaderIsInStream, StreamStandsAlone
  <1>4. SwitcherIsPast /\ WindowsOverlap /\ CorrectionIsOfOneFrame
    BY <1>1, <1>2
       DEF SwitcherIsPast, WindowsOverlap, CorrectionIsOfOneFrame, Sequences
  <1> QED
    BY <1>3, <1>4 DEF LInv

LEMMA LStepHolds == IInv /\ LInv /\ [Next]_vars => LInv'
  <1> SUFFICES ASSUME IInv, LInv, [Next]_vars
               PROVE  LInv'
    OBVIOUS
  <1> USE DEF Refuse
  <1>1. ASSUME NEW attack \in BOOLEAN, Analyse(attack),
               \/ correction' = correction
               \/ correction' = Granted(correction)
               \/ correction' = Quantized(correction)
        PROVE  CorrectionIsOfOneFrame'
    <2>1. config' = config /\ analysed' \in Nat
      BY <1>1, TypeFields DEF Analyse
    <2> QED
      BY <1>1, <2>1, CorrectionHolds DEF LInv
  <1>2. ASSUME NEW attack \in BOOLEAN, NEW bytes \in Sizes, EncodeLc(attack, bytes)
        PROVE  LInv'
    <2>1. /\ Analyse(attack) /\ Send(bytes, 0) /\ correction' = correction
          /\ 0 \in References
      BY <1>2 DEF EncodeLc, References
    <2> QED
      BY <1>1, <2>1, KeptWithFrame
  <1>3. ASSUME NEW attack \in BOOLEAN, NEW bytes \in Sizes, RefuseLc(attack, bytes)
        PROVE  LInv'
    <2>1. Analyse(attack) /\ correction' = correction /\ UNCHANGED <<header, frames>>
      BY <1>3 DEF RefuseLc
    <2> QED
      BY <1>1, <2>1, KeptWithoutFrame
  <1>4. ASSUME NEW attack \in BOOLEAN, FailLc(attack)
        PROVE  LInv'
    <2>1. Analyse(attack) /\ correction' = correction /\ UNCHANGED <<header, frames>>
      BY <1>4 DEF FailLc
    <2> QED
      BY <1>1, <2>1, KeptWithoutFrame
  <1>5. ASSUME NEW attack \in BOOLEAN, NEW wanted \in Sizes, NEW least \in Sizes,
               EncodeLowDelay(attack, wanted, least)
        PROVE  LInv'
    <2>1. PICK grant \in Grants, reference \in References :
             \E bytes \in Fitted(wanted, least, grant) :
                Send(Coded(bytes), reference)
      BY <1>5 DEF EncodeLowDelay
    <2>2. Analyse(attack) /\ correction' = Quantized(correction)
      BY <1>5 DEF EncodeLowDelay
    <2> QED
      BY <1>1, <2>1, <2>2, KeptWithFrame
  <1>6. ASSUME NEW attack \in BOOLEAN, NEW wanted \in Sizes, NEW least \in Sizes,
               RefuseLowDelay(attack, wanted, least)
        PROVE  LInv'
    <2>1. /\ Analyse(attack) /\ correction' = Quantized(correction)
          /\ UNCHANGED <<header, frames>>
      BY <1>6 DEF RefuseLowDelay
    <2> QED
      BY <1>1, <2>1, KeptWithoutFrame
  <1>7. ASSUME NEW attack \in BOOLEAN, FailLowDelay(attack)
        PROVE  LInv'
    <2>1. /\ Analyse(attack) /\ correction' = Granted(correction)
          /\ UNCHANGED <<header, frames>>
      BY <1>7 DEF FailLowDelay
    <2> QED
      BY <1>1, <2>1, KeptWithoutFrame
  <1>8. ASSUME NEW attack \in BOOLEAN, RefuseSpectrum(attack)
        PROVE  LInv'
    <2>1. Analyse(attack) /\ correction' = correction /\ UNCHANGED <<header, frames>>
      BY <1>8 DEF RefuseSpectrum
    <2> QED
      BY <1>1, <2>1, KeptWithoutFrame
  <1>9. CASE RefuseInput \/ UNCHANGED vars
    <2>1. /\ UNCHANGED <<config, window, correction, header, analysed, frames>>
          /\ Fills' = Fills /\ LowDelay' = LowDelay
      BY <1>9 DEF RefuseInput, vars, rate, Fills, LowDelay
    <2>2. HeaderIsInStream' /\ StreamStandsAlone' /\ SwitcherIsPast'
      BY <2>1 DEF LInv, HeaderIsInStream, StreamStandsAlone, SwitcherIsPast
    <2>3. WindowsOverlap' /\ CorrectionIsOfOneFrame'
      BY <2>1 DEF LInv, WindowsOverlap, CorrectionIsOfOneFrame
    <2> QED
      BY <2>2, <2>3 DEF LInv
  <1> QED
    BY <1>2, <1>3, <1>4, <1>5, <1>6, <1>7, <1>8, <1>9 DEF Next

LEMMA LeftInvariance == Spec => []LInv
  BY Invariance, LInitHolds, LStepHolds, PTL DEF Spec

(* Frames that follow each other without a refused frame between them have *)
(* windows that overlap.                                                   *)
THEOREM WindowShapes == Spec => []WindowsOverlap
  <1>1. LInv => WindowsOverlap
    BY DEF LInv
  <1> QED
    BY <1>1, LeftInvariance, PTL

(* The first frame of an SBR stream has the header and refers to none, for *)
(* every number of frames that fail before it.                             *)
THEOREM FirstFrame == Spec => []StreamStandsAlone
  <1>1. LInv => StreamStandsAlone
    BY DEF LInv
  <1> QED
    BY <1>1, LeftInvariance, PTL

(* The correction never compares the entropy of one frame with the bits of *)
(* another.                                                                *)
THEOREM OneFrameCorrected == Spec => []CorrectionIsOfOneFrame
  <1>1. LInv => CorrectionIsOfOneFrame
    BY DEF LInv
  <1> QED
    BY <1>1, LeftInvariance, PTL

-----------------------------------------------------------------------------
(* Refusals *)

(* What is fitted into a grant, and the fill, are accepted if the smallest *)
(* form of the frame is, the fill alone and the static bits.               *)
LEMMA FittedIsAccepted ==
    ASSUME reservoir \in Reservoir,
           NEW wanted \in Sizes, NEW least \in Sizes, least <= wanted,
           NEW grant \in Grants, NEW bytes \in Fitted(wanted, least, grant),
           Accepts(reservoir, least),
           Accepts(reservoir, Filled(reservoir, 0)),
           StaticBits <= Available(reservoir)
    PROVE  Accepts(reservoir, Coded(bytes))
  <1>1. wanted \in Nat /\ least \in Nat /\ StaticBits \in Nat
    BY SizesAreBytes
  <1>2. bytes \in Nat
    BY FittedHolds
  <1>3. PICK a \in Nat : a = Available(reservoir)
    BY ReservoirFields DEF Available
  <1>4. grant \in Nat /\ grant <= a
    <2>1. CASE Fills /\ UsesCorrection
      <3>1. PICK d \in 0..Larger(a - StaticBits, 0) : grant = StaticBits + d
        BY <1>3, <2>1 DEF Grants
      <3>2. Larger(a - StaticBits, 0) = a - StaticBits
        BY <1>1, <1>3 DEF Larger
      <3> QED
        BY <1>1, <1>3, <3>1, <3>2
    <2>2. CASE ~(Fills /\ UsesCorrection)
      BY <1>3, <2>2 DEF Grants
    <2> QED
      BY <2>1, <2>2
  <1>5. 8 * least <= a
    BY <1>3 DEF Accepts
  <1>6. 8 * bytes <= a
    <2>1. \/ bytes = wanted /\ 8 * wanted <= grant
          \/ bytes = least
          \/ 8 * bytes <= grant
      BY DEF Fitted
    <2> QED
      BY <1>1, <1>2, <1>3, <1>4, <1>5, <2>1
  <1>7. CASE ~Fills
    BY <1>3, <1>6, <1>7 DEF Coded, Accepts
  <1>8. CASE Fills
    <2>1. Coded(bytes) \in {bytes, Filled(reservoir, 0)}
      <3>1. PICK k \in Nat : k = (MinimumCbr(reservoir) + 7) \div 8
        BY ReservoirFields DEF MinimumCbr, Larger, Available
      <3>2. /\ Filled(reservoir, 0) = Larger(0, k)
            /\ Coded(bytes) = Larger(bytes, k)
        BY <1>8, <3>1 DEF Filled, Coded
      <3> QED
        BY <1>2, <3>1, <3>2 DEF Larger
    <2> QED
      BY <1>3, <1>6, <2>1 DEF Accepts
  <1> QED
    BY <1>7, <1>8

(* For all nominal sizes and capacities, and in every state the encoder    *)
(* can be in, a frame that fits is refused only where the rounded fill or  *)
(* the static bits alone are more than what is available.                  *)
THEOREM NoNeedlessRefusal == Spec => []RefusalIsNeeded
  <1>1. Init => RefusalIsNeeded
    BY DEF Init, RefusalIsNeeded
  <1>2. IInv /\ RefusalIsNeeded /\ [Next]_vars => RefusalIsNeeded'
    <2> SUFFICES ASSUME IInv, RefusalIsNeeded, [Next]_vars
                 PROVE  RefusalIsNeeded'
      OBVIOUS
    <2>1. ASSUME NEW attack \in BOOLEAN, NEW wanted \in Sizes, NEW least \in Sizes,
                 RefuseLowDelay(attack, wanted, least)
          PROVE  RefusalIsNeeded'
      <3>1. PICK grant \in Grants :
               \E bytes \in Fitted(wanted, least, grant) :
                  ~Accepts(reservoir, Coded(bytes))
        BY <2>1 DEF RefuseLowDelay
      <3>2. least <= wanted
        BY <2>1 DEF RefuseLowDelay
      <3>3. \/ ~Accepts(reservoir, least)
            \/ ~Accepts(reservoir, Filled(reservoir, 0))
            \/ ~(StaticBits <= Available(reservoir))
        BY <3>1, <3>2, TypeFields, FittedIsAccepted
      <3>4. /\ reservoir' = reservoir
            /\ outcome' = IF Accepts(reservoir, least) THEN "needless"
                          ELSE "too large"
        BY <2>1 DEF RefuseLowDelay, Refuse
      <3>5. Available(reservoir) \in Nat /\ StaticBits \in Nat
            /\ Filled(reservoir, 0) \in Nat
        BY TypeFields, ReservoirFields, FilledCovers, SizesAreBytes
           DEF Available
      <3> QED
        BY <3>3, <3>4, <3>5 DEF RefusalIsNeeded, Accepts
    <2>2. ASSUME NEW attack \in BOOLEAN,
                 FailLc(attack) \/ FailLowDelay(attack) \/ RefuseSpectrum(attack)
          PROVE  RefusalIsNeeded'
      BY <2>2 DEF FailLc, FailLowDelay, RefuseSpectrum, Refuse, RefusalIsNeeded
    <2>3. ASSUME NEW attack \in BOOLEAN, NEW bytes \in Sizes,
                 EncodeLc(attack, bytes) \/ RefuseLc(attack, bytes)
          PROVE  RefusalIsNeeded'
      BY <2>3 DEF EncodeLc, RefuseLc, Send, Refuse, RefusalIsNeeded
    <2>4. ASSUME NEW attack \in BOOLEAN, NEW wanted \in Sizes, NEW least \in Sizes,
                 EncodeLowDelay(attack, wanted, least)
          PROVE  RefusalIsNeeded'
      BY <2>4 DEF EncodeLowDelay, Send, RefusalIsNeeded
    <2>5. CASE RefuseInput \/ UNCHANGED vars
      BY <2>5 DEF RefuseInput, vars, rate, RefusalIsNeeded
    <2> QED
      BY <2>1, <2>2, <2>3, <2>4, <2>5 DEF Next
  <1> QED
    BY <1>1, <1>2, Invariance, PTL DEF Spec
=============================================================================
