--------------------------- MODULE TeachingProofs ---------------------------
(***************************************************************************)
(* Proofs about what hangs from the assignments of a semester: Assistant-  *)
(* ships, for any number of students, assignments, days and slots, and     *)
(* HourlyPay, for any calendar, rates and contracts (the table of          *)
(* contracts, the rate a contract keeps, and what one month pays).         *)
(***************************************************************************)
EXTENDS Assistantships, HourlyPay, FiniteSetTheorems, TLAPS

AInv == AssistantshipsTypeOK /\ NobodyIsInTwoPlaces

LEMMA ARows == ASSUME AssistantshipsTypeOK, NEW i \in Held PROVE i \in Id /\ assistantship[i] \in Rows
BY DEF AssistantshipsTypeOK, Held

\* What the query for conflicts is for: whoever is in two places at some
\* minute has two rows that conflict.
LEMMA ConflictsAreFound ==
  ASSUME NEW r \in Rows, NEW f \in Application, r.assistant = f.assistant,
         NEW day \in Today, NEW weekday, NEW minute \in Nat,
         At(r, day, weekday, minute), At(f, day, weekday, minute)
  PROVE  Conflict(r, f)
<1>1. f \in Rows /\ f.endsOn # NoEnd BY DEF Application
<1>2. /\ day \in Nat /\ r.startsOn \in Nat /\ f.startsOn \in Nat
      /\ r.endsOn \in Nat /\ f.endsOn \in Nat
  BY <1>1, AssistantshipsAssumption DEF Rows, NoEnd
<1>3. Meets(r, f) BY <1>1, <1>2 DEF At, Meets
<1>4. PICK x \in r.slots : x[1] = weekday /\ x[2] <= minute /\ minute < x[3] BY DEF At
<1>5. PICK y \in f.slots : y[1] = weekday /\ y[2] <= minute /\ minute < y[3] BY DEF At
<1>6. x \in Nat \X Nat \X Nat /\ y \in Nat \X Nat \X Nat
  BY <1>1, AssistantshipsAssumption DEF Rows
<1>7. Crosses(y, x) BY <1>4, <1>5, <1>6 DEF Crosses
<1>8. QED BY <1>3, <1>7 DEF Conflict

LEMMA AInit == AssistantshipsInit => AInv
<1> SUFFICES ASSUME AssistantshipsInit PROVE AInv OBVIOUS
<1>1. CASE assistantship = [i \in Id |-> NoRow] /\ approvals = {}
  <2>1. Held = {} BY <1>1 DEF Held
  <2>2. AssistantshipsTypeOK BY <1>1, <2>1 DEF AssistantshipsInit, AssistantshipsTypeOK
  <2>3. QED BY <2>1, <2>2 DEF AInv, NobodyIsInTwoPlaces
<1>2. ASSUME NEW i \in Id, NEW r \in Rows,
             assistantship = [j \in Id |-> IF j = i THEN r ELSE NoRow],
             approvals = {<<r.assistant, CourseOfAssignment[r.assignment], r.approvedOn>>}
      PROVE  AInv
  <2>1. Held \subseteq {i} BY <1>2 DEF Held
  <2>2. assistantship[i] = r /\ assistantship \in [Id -> {NoRow} \cup Rows] BY <1>2
  <2>3. approvals \subseteq Assistant \X {CourseOfAssignment[a] : a \in Assignment} \X Today
    BY <1>2 DEF Rows
  <2>4. AssistantshipsTypeOK
    BY <1>2, <2>1, <2>2, <2>3 DEF AssistantshipsInit, AssistantshipsTypeOK
  <2>5. NobodyIsInTwoPlaces BY <2>1 DEF NobodyIsInTwoPlaces
  <2>6. QED BY <2>4, <2>5 DEF AInv
<1>3. QED BY <1>1, <1>2 DEF AssistantshipsInit

LEMMA SaveKeeps ==
  ASSUME AInv, NEW i \in Id, NEW f \in Application, Save(i, f) PROVE AInv'
<1> DEFINE c == CourseOfAssignment[f.assignment]
<1>1. /\ ApprovalAgrees(f, c) /\ RegistersOnce(i, f)
      /\ \A j \in Held \ {i} : ~Conflict(assistantship[j], f)
      /\ assistantship' = [assistantship EXCEPT ![i] = f]
      /\ approvals' = approvals \cup {<<f.assistant, c, f.approvedOn>>}
      /\ UNCHANGED teaching
  BY DEF Save
<1>2. f \in Rows BY DEF Application
<1>3. /\ assistantship' \in [Id -> {NoRow} \cup Rows] /\ assistantship'[i] = f
      /\ \A j \in Id : j # i => assistantship'[j] = assistantship[j]
  BY <1>1, <1>2 DEF AInv, AssistantshipsTypeOK
<1>4. Held' \subseteq Held \cup {i} BY <1>3 DEF Held
<1>5. approvals' \subseteq Assistant \X {CourseOfAssignment[a] : a \in Assignment} \X Today
  BY <1>1, <1>2 DEF AInv, AssistantshipsTypeOK, Rows
<1>6. ASSUME NEW x \in approvals', NEW y \in approvals', x[1] = y[1], x[2] = y[2] PROVE x = y
  <2>1. ASSUME NEW z \in approvals, z[1] = f.assistant, z[2] = c
        PROVE  z = <<f.assistant, c, f.approvedOn>>
    <3>1. z[3] = f.approvedOn BY <1>1, <2>1 DEF ApprovalAgrees
    <3>2. z = <<z[1], z[2], z[3]>> BY DEF AInv, AssistantshipsTypeOK
    <3>3. QED BY <2>1, <3>1, <3>2
  <2>2. QED BY <1>1, <1>6, <2>1 DEF AInv, AssistantshipsTypeOK
<1>7. ASSUME NEW j \in Held'
      PROVE  LET r == assistantship'[j] IN
               <<r.assistant, CourseOfAssignment[r.assignment], r.approvedOn>> \in approvals'
  <2>1. CASE j = i BY <1>1, <1>3, <2>1
  <2>2. CASE j # i BY <1>1, <1>3, <1>4, <2>2 DEF AInv, AssistantshipsTypeOK, Held
  <2>3. QED BY <2>1, <2>2
<1>8. ASSUME NEW j \in Held', NEW k \in Held',
             assistantship'[j].assistant = assistantship'[k].assistant,
             assistantship'[j].assignment = assistantship'[k].assignment
      PROVE  j = k
  <2>1. \A h \in Held \ {i} : assistantship'[h] = assistantship[h] BY <1>3 DEF Held
  <2>2. ASSUME NEW h \in Held, h # i
        PROVE  ~(/\ assistantship'[h].assistant = f.assistant
                 /\ assistantship'[h].assignment = f.assignment)
    BY <1>1, <2>1, <2>2 DEF RegistersOnce
  <2>3. CASE j = i \/ k = i BY <1>3, <1>4, <1>8, <2>2, <2>3
  <2>4. CASE j # i /\ k # i
    <3>1. /\ j \in Held /\ assistantship'[j] = assistantship[j]
          /\ k \in Held /\ assistantship'[k] = assistantship[k]
      BY <1>4, <2>1, <2>4
    <3>2. QED BY <1>8, <3>1 DEF AInv, AssistantshipsTypeOK
  <2>5. QED BY <2>3, <2>4
<1>9. AssistantshipsTypeOK'
  <2>1. teaching' \subseteq Assignment BY <1>1 DEF AInv, AssistantshipsTypeOK
  <2>2. \A x, y \in approvals' : x[1] = y[1] /\ x[2] = y[2] => x = y BY <1>6
  <2>3. \A j, k \in Held' :
          (/\ assistantship'[j].assistant = assistantship'[k].assistant
           /\ assistantship'[j].assignment = assistantship'[k].assignment) => j = k
    BY <1>8
  <2>4. QED BY <1>3, <1>5, <1>7, <2>1, <2>2, <2>3 DEF AssistantshipsTypeOK
<1>10. NobodyIsInTwoPlaces'
  <2>1. ASSUME NEW j \in Held, j # i, assistantship[j].assistant = f.assistant,
               NEW day \in Today, NEW weekday, NEW minute \in Nat,
               At(assistantship[j], day, weekday, minute), At(f, day, weekday, minute)
        PROVE  FALSE
    <3>1. assistantship[j] \in Rows BY ARows DEF AInv
    <3>2. Conflict(assistantship[j], f) BY <2>1, <3>1, ConflictsAreFound
    <3>3. QED BY <1>1, <2>1, <3>2
  <2>2. SUFFICES ASSUME NEW j \in Held', NEW k \in Held', j # k,
                        assistantship'[j].assistant = assistantship'[k].assistant,
                        NEW day \in Today, NEW x \in WeeklySlot, NEW minute \in x[2]..x[3],
                        At(assistantship'[j], day, x[1], minute),
                        At(assistantship'[k], day, x[1], minute)
                 PROVE  FALSE
    BY DEF NobodyIsInTwoPlaces, At
  <2>3. minute \in Nat
    <3>1. x \in Nat \X Nat \X Nat BY AssistantshipsAssumption
    <3>2. x[2] \in Nat /\ x[3] \in Nat BY <3>1
    <3>3. QED BY <3>2
  <2>4. \A h \in Held \ {i} : assistantship'[h] = assistantship[h] BY <1>3 DEF Held
  <2>5. CASE j = i
    <3>1. k \in Held /\ k # i /\ assistantship'[k] = assistantship[k] BY <1>4, <2>2, <2>4, <2>5
    <3>2. QED BY <1>3, <2>1, <2>2, <2>3, <2>5, <3>1
  <2>6. CASE k = i
    <3>1. j \in Held /\ j # i /\ assistantship'[j] = assistantship[j] BY <1>4, <2>2, <2>4, <2>6
    <3>2. QED BY <1>3, <2>1, <2>2, <2>3, <2>6, <3>1
  <2>7. CASE j # i /\ k # i
    <3>1. /\ j \in Held /\ assistantship'[j] = assistantship[j]
          /\ k \in Held /\ assistantship'[k] = assistantship[k]
      BY <1>4, <2>4, <2>7
    <3>2. QED BY <2>2, <3>1 DEF AInv, NobodyIsInTwoPlaces
  <2>8. QED BY <2>5, <2>6, <2>7
<1>11. QED BY <1>9, <1>10 DEF AInv

LEMMA AStep == AInv /\ [AssistantshipsNext]_assistantVars => AInv'
<1> SUFFICES ASSUME AInv, [AssistantshipsNext]_assistantVars PROVE AInv' OBVIOUS
<1>1. ASSUME NEW i \in Id, NEW f \in Application, Register(i, f) \/ Update(i, f) PROVE AInv'
  BY <1>1, SaveKeeps DEF Register, Update
<1>2. ASSUME UNCHANGED <<assistantship, approvals>>, teaching' \subseteq Assignment PROVE AInv'
  BY <1>2 DEF AInv, AssistantshipsTypeOK, NobodyIsInTwoPlaces, Held, At
<1>3. ASSUME NEW a \in Assignment, SetTeacherStatus(a) PROVE AInv'
  BY <1>2, <1>3 DEF SetTeacherStatus, AInv, AssistantshipsTypeOK
<1>4. CASE UNCHANGED assistantVars
  BY <1>2, <1>4 DEF assistantVars, AInv, AssistantshipsTypeOK
<1>5. QED BY <1>1, <1>3, <1>4 DEF AssistantshipsNext

(* The rows and the approvals are consistent: every assistantship refers   *)
(* to the one approval of its student and course, and none is double.      *)
THEOREM AssistantshipsTypeCorrect == AssistantshipsSpec => []AssistantshipsTypeOK
<1>1. AInv => AssistantshipsTypeOK BY DEF AInv
<1>2. QED BY AInit, AStep, <1>1, PTL DEF AssistantshipsSpec

(* However assistantships are registered and moved, nobody assists in two  *)
(* places at the same minute of the same day.                              *)
THEOREM NobodyEverInTwoPlaces == AssistantshipsSpec => []NobodyIsInTwoPlaces
<1>1. AInv => NobodyIsInTwoPlaces BY DEF AInv
<1>2. QED BY AInit, AStep, <1>1, PTL DEF AssistantshipsSpec

-----------------------------------------------------------------------------
LEMMA SignedCells ==
  ASSUME PayTypeOK, NEW i \in Saved PROVE i \in Contract /\ payContracts[i] \in Signed
BY DEF PayTypeOK, Saved

LEMMA SaveTypes ==
  ASSUME PayTypeOK, NEW l \in Lines, NEW p \in Period, SaveContracts(l, p) PROVE PayTypeOK'
<1>1. /\ rates' = rates /\ \A i \in Listed(l) : rates[l[i].rate] # 0
      /\ payContracts' = [i \in Contract |->
           IF i \notin Listed(l) THEN NoContract
           ELSE [key |-> l[i].key, rate |-> l[i].rate, value |-> ValueOf(i, l[i].rate), period |-> p]]
  BY DEF SaveContracts, UsableRate
<1>2. ASSUME NEW i \in Listed(l)
      PROVE  i \in Contract /\ l[i].key \in Key /\ l[i].rate \in Rate /\ ValueOf(i, l[i].rate) \in Value
  <2>1. i \in Contract /\ l[i] \in [key : Key, rate : Rate] BY DEF Lines, Listed
  <2>2. rates[l[i].rate] \in Value BY <1>1, <2>1 DEF PayTypeOK
  <2>3. i \in Saved => payContracts[i].value \in Value BY SignedCells DEF Signed
  <2>4. QED BY <2>1, <2>2, <2>3 DEF ValueOf
<1>3. ASSUME NEW i \in Contract PROVE payContracts'[i] \in {NoContract} \cup Signed
  <2>1. CASE i \in Listed(l)
    <3>1. payContracts'[i] = [key |-> l[i].key, rate |-> l[i].rate,
                              value |-> ValueOf(i, l[i].rate), period |-> p]
      BY <1>1, <2>1
    <3>2. QED BY <1>2, <2>1, <3>1 DEF Signed
  <2>2. CASE i \notin Listed(l) BY <1>1, <2>2
  <2>3. QED BY <2>1, <2>2
<1>4. payContracts' \in [Contract -> {NoContract} \cup Signed] BY <1>1, <1>3
<1>5. ASSUME NEW i \in Saved', NEW j \in Saved', payContracts'[i].key = payContracts'[j].key
      PROVE  i = j
  <2>1. /\ i \in Listed(l) /\ payContracts'[i].key = l[i].key
        /\ j \in Listed(l) /\ payContracts'[j].key = l[j].key
    BY <1>1 DEF Saved
  <2>2. QED BY <1>5, <2>1 DEF Lines, Listed
<1>6. QED BY <1>1, <1>4, <1>5 DEF PayTypeOK

(* The contracts are well formed and no two of them have one key.          *)
THEOREM PayTypeCorrect == PaySpec => []PayTypeOK
<1>1. PayInit => PayTypeOK BY DEF PayInit, PayTypeOK, Saved
<1>2. PayTypeOK /\ [PayNext]_payVars => PayTypeOK'
  <2> SUFFICES ASSUME PayTypeOK, [PayNext]_payVars PROVE PayTypeOK' OBVIOUS
  <2>1. ASSUME NEW r \in Rate, NEW v \in Value, SetRate(r, v) PROVE PayTypeOK'
    BY <2>1 DEF SetRate, PayTypeOK, Saved
  <2>2. ASSUME NEW l \in Lines, NEW p \in Period, SaveContracts(l, p) PROVE PayTypeOK'
    BY <2>2, SaveTypes
  <2>3. CASE UNCHANGED payVars BY <2>3 DEF payVars, PayTypeOK, Saved
  <2>4. QED BY <2>1, <2>2, <2>3 DEF PayNext
<1>3. QED BY <1>1, <1>2, PTL DEF PaySpec

LEMMA RateKept ==
  [PayNext]_payVars =>
    [\A i \in Saved : payContracts'[i] # NoContract /\ payContracts'[i].rate = payContracts[i].rate
       => payContracts'[i].value = payContracts[i].value]_payVars
<1> SUFFICES ASSUME PayNext, NEW i \in Saved,
                    payContracts'[i] # NoContract, payContracts'[i].rate = payContracts[i].rate
             PROVE  payContracts'[i].value = payContracts[i].value
  OBVIOUS
<1>1. ASSUME NEW r \in Rate, NEW v \in Value, SetRate(r, v) PROVE payContracts' = payContracts
  BY <1>1 DEF SetRate
<1>2. ASSUME NEW l \in Lines, NEW p \in Period, SaveContracts(l, p)
      PROVE  payContracts'[i].value = payContracts[i].value
  <2>1. i \in Contract BY DEF Saved
  <2>2. payContracts'[i] =
          IF i \notin Listed(l) THEN NoContract
          ELSE [key |-> l[i].key, rate |-> l[i].rate, value |-> ValueOf(i, l[i].rate), period |-> p]
    BY <1>2, <2>1 DEF SaveContracts
  <2>3. payContracts'[i] = [key |-> l[i].key, rate |-> l[i].rate,
                            value |-> ValueOf(i, l[i].rate), period |-> p]
    BY <2>2
  <2>4. l[i].rate = payContracts[i].rate BY <2>3
  <2>5. QED BY <2>3, <2>4 DEF ValueOf
<1>3. QED BY <1>1, <1>2 DEF PayNext

(* A new value of a rate never reprices a contract that stays on it.       *)
THEOREM SignedValuesStay == PaySpec => KeptRateKeepsItsValue
BY RateKept, PTL DEF PaySpec, KeptRateKeepsItsValue

-----------------------------------------------------------------------------
LEMMA Calendar == ASSUME NEW m \in 1..Len(LastDay) PROVE LastDay[m] \in 28..31
BY HourlyPayAssumption

LEMMA Dates == ASSUME NEW d \in Date PROVE d[1] \in 1..Len(LastDay) /\ d[2] \in 1..31
BY HourlyPayAssumption DEF Date

(* A month covered from end to end pays 30 days, however long it is.       *)
THEOREM EveryFullMonthPays30Days == FullMonthsPay30Days
<1> SUFFICES ASSUME NEW m \in 1..Len(LastDay)
             PROVE  DaysPaid([startsOn |-> <<m, 1>>, endsOn |-> <<m, LastDay[m]>>], m) = 30
  BY DEF FullMonthsPay30Days
<1> DEFINE p == [startsOn |-> <<m, 1>>, endsOn |-> <<m, LastDay[m]>>]
<1>1. LastDay[m] \in Nat BY Calendar
<1>2. FirstPaid(p, m) = 1 BY DEF FirstPaid, IsBefore
<1>3. LastPaid(p, m) = 30 BY <1>1 DEF LastPaid, IsBefore
<1>4. QED BY <1>2, <1>3 DEF DaysPaid

LEMMA CutKeepsOrder ==
  ASSUME NEW a \in 1..31, NEW b \in 1..31, ~(b < a) PROVE UpTo30(a) <= UpTo30(b)
BY DEF UpTo30

(* No month of a contract pays more than 30 days, nor less than none: the  *)
(* end of a month is never before its start once both are cut at 30.       *)
THEOREM NoMonthIsOverpaid ==
  ASSUME NEW p \in Period, NEW m \in Months(p) PROVE DaysPaid(p, m) \in 1..30
<1>1. /\ p.startsOn \in Date /\ p.endsOn \in Date /\ ~IsBefore(p.endsOn, p.startsOn) BY DEF Period
<1>2. /\ p.startsOn[1] \in Nat /\ p.startsOn[2] \in 1..31 /\ p.startsOn[1] <= m
      /\ p.endsOn[1] \in Nat /\ p.endsOn[2] \in 1..31 /\ m <= p.endsOn[1] /\ m \in Nat
      /\ m \in 1..Len(LastDay)
  <2>1. /\ p.startsOn[1] \in 1..Len(LastDay) /\ p.startsOn[2] \in 1..31
        /\ p.endsOn[1] \in 1..Len(LastDay) /\ p.endsOn[2] \in 1..31
    BY <1>1, Dates
  <2>2. Len(LastDay) \in Nat BY HourlyPayAssumption
  <2>3. QED BY <2>1, <2>2 DEF Months
<1>3. LastDay[m] \in 28..31 BY <1>2, Calendar
<1>4. UpTo30(p.startsOn[2]) \in 1..30 /\ UpTo30(p.endsOn[2]) \in 1..30 BY <1>2 DEF UpTo30
<1>5. FirstPaid(p, m) \in 1..30 /\ LastPaid(p, m) \in 1..30 BY <1>4 DEF FirstPaid, LastPaid
<1>6. FirstPaid(p, m) <= LastPaid(p, m)
  <2>1. CASE p.startsOn[1] < m
    <3>1. FirstPaid(p, m) = 1 BY <1>2, <2>1 DEF FirstPaid, IsBefore
    <3>2. QED BY <1>5, <3>1
  <2>2. CASE m < p.endsOn[1]
    <3>1. LastPaid(p, m) = 30 BY <1>2, <2>2 DEF LastPaid, IsBefore
    <3>2. QED BY <1>5, <3>1
  <2>3. CASE p.startsOn[1] = m /\ p.endsOn[1] = m
    <3>1. p.startsOn[2] \in 1..31 /\ p.endsOn[2] \in 1..31 BY <1>2
    <3>2. UpTo30(p.startsOn[2]) <= UpTo30(p.endsOn[2])
      <4>1. ~(p.endsOn[1] = p.startsOn[1] /\ p.endsOn[2] < p.startsOn[2]) BY <1>1 DEF IsBefore
      <4>2. p.endsOn[1] = p.startsOn[1] BY <2>3, Zenon
      <4>3. ~(p.endsOn[2] < p.startsOn[2]) BY <4>1, <4>2, Zenon
      <4>4. QED BY ONLY <3>1, <4>3, CutKeepsOrder
    <3>3. FirstPaid(p, m) = 1 \/ FirstPaid(p, m) = UpTo30(p.startsOn[2]) BY DEF FirstPaid
    <3>4. LastPaid(p, m) = 30 \/ LastPaid(p, m) = UpTo30(p.endsOn[2]) BY DEF LastPaid
    <3>5. QED BY <1>4, <1>5, <3>2, <3>3, <3>4
  <2>4. QED BY <1>2, <2>1, <2>2, <2>3
<1>7. QED BY <1>5, <1>6 DEF DaysPaid

(* Rounding moves what one month pays by half a peso at most.              *)
THEOREM RoundingOfAMonth ==
  ASSUME NEW value \in Nat, NEW days \in 1..30
  PROVE  /\ 60 * Rounded(value, days) - 2 * value * days <= 30
         /\ 2 * value * days - 60 * Rounded(value, days) < 30
<1> DEFINE worth == 2 * value * days
           n == worth + 30
<1>1. worth \in Int OBVIOUS
<1> HIDE DEF worth
<1>2. n = 60 * (n \div 60) + (n % 60) /\ n % 60 \in 0..59 /\ n \div 60 \in Int BY <1>1
<1>3. 60 * (n \div 60) - worth <= 30 /\ worth - 60 * (n \div 60) < 30 BY <1>1, <1>2
<1>4. QED BY <1>3 DEF Rounded, worth

-----------------------------------------------------------------------------
(* A contract cut in two, the second from the day after the first ends.    *)
Paid(p, m) == IF m \in Months(p) THEN DaysPaid(p, m) ELSE 0
Cuts(p) == {d \in AllDates : ~IsBefore(d, p.startsOn) /\ IsBefore(d, p.endsOn)}
First(p, d) == [p EXCEPT !.endsOn = d]
Second(p, d) == [p EXCEPT !.startsOn = NextDay(d)]

\* The four ends in play, as numbers.
LEMMA CutNumbers ==
  ASSUME NEW p \in Period, NEW d \in Cuts(p)
  PROVE  /\ p.startsOn[1] \in Nat /\ p.startsOn[2] \in 1..31
         /\ p.endsOn[1] \in 1..Len(LastDay) /\ p.endsOn[2] \in 1..31
         /\ p.endsOn[2] <= LastDay[p.endsOn[1]]
         /\ d[1] \in 1..Len(LastDay) /\ d[2] \in 1..31 /\ d[2] <= LastDay[d[1]]
         /\ LastDay[d[1]] \in 28..31 /\ Len(LastDay) \in Nat
         /\ p.startsOn[1] < d[1] \/ (p.startsOn[1] = d[1] /\ p.startsOn[2] <= d[2])
         /\ d[1] < p.endsOn[1] \/ (d[1] = p.endsOn[1] /\ d[2] < p.endsOn[2])
<1>1. /\ p.startsOn \in Date /\ p.endsOn \in Date
  BY DEF Period
<1>2. /\ p.startsOn[1] \in 1..Len(LastDay) /\ p.startsOn[2] \in 1..31
      /\ p.endsOn[1] \in 1..Len(LastDay) /\ p.endsOn[2] \in 1..31
  BY <1>1, Dates
<1>3. p.endsOn[2] <= LastDay[p.endsOn[1]] BY <1>1 DEF Date
<1>4. /\ d[1] \in 1..Len(LastDay) /\ d[2] \in 1..31 /\ d[2] <= LastDay[d[1]]
      /\ ~IsBefore(d, p.startsOn) /\ IsBefore(d, p.endsOn)
  BY DEF Cuts, AllDates
<1>5. LastDay[d[1]] \in 28..31 BY <1>4, Calendar
<1>6. Len(LastDay) \in Nat BY HourlyPayAssumption
<1>7. p.startsOn[1] < d[1] \/ (p.startsOn[1] = d[1] /\ p.startsOn[2] <= d[2])
  <2>1. ~(d[1] < p.startsOn[1] \/ (d[1] = p.startsOn[1] /\ d[2] < p.startsOn[2]))
    BY <1>4 DEF IsBefore
  <2>2. 1..Len(LastDay) \subseteq Int /\ 1..31 \subseteq Int BY ONLY <1>6
  <2>3. d[1] \in Int /\ d[2] \in Int BY <1>4, <2>2
  <2>4. p.startsOn[1] \in Int /\ p.startsOn[2] \in Int BY <1>2, <2>2
  <2>5. QED BY ONLY <2>1, <2>3, <2>4
<1>8. d[1] < p.endsOn[1] \/ (d[1] = p.endsOn[1] /\ d[2] < p.endsOn[2])
  BY <1>4 DEF IsBefore
<1>9. QED BY <1>2, <1>3, <1>4, <1>5, <1>6, <1>7, <1>8

\* What a month pays, in those numbers.
LEMMA PaidInNumbers ==
  ASSUME NEW s, NEW e, NEW q, q.startsOn = s, q.endsOn = e,
         s[1] \in Nat, s[2] \in 1..31, e[1] \in Nat, e[2] \in 1..31, NEW m \in Nat
  PROVE  /\ FirstPaid(q, m) \in 1..30 /\ LastPaid(q, m) \in 1..30
         /\ (m < s[1] \/ e[1] < m => Paid(q, m) = 0)
         /\ s[1] <= m /\ m <= e[1] =>
              /\ Paid(q, m) = LastPaid(q, m) - FirstPaid(q, m) + 1
              /\ s[1] < m => FirstPaid(q, m) = 1
              /\ s[1] = m => FirstPaid(q, m) = UpTo30(s[2])
              /\ m < e[1] => LastPaid(q, m) = 30
              /\ m = e[1] /\ e[2] < LastDay[m] => LastPaid(q, m) = UpTo30(e[2])
              /\ m = e[1] /\ e[2] = LastDay[m] => LastPaid(q, m) = 30
<1>1. m \in Months(q) <=> s[1] <= m /\ m <= e[1] BY DEF Months
<1>2. Paid(q, m) = IF m \in Months(q) THEN LastPaid(q, m) - FirstPaid(q, m) + 1 ELSE 0
  BY DEF Paid, DaysPaid
<1>3. IsBefore(<<m, 1>>, s) <=> m < s[1] \/ (m = s[1] /\ 1 < s[2]) BY DEF IsBefore
<1>4. IsBefore(e, <<m, LastDay[m]>>) <=> e[1] < m \/ (e[1] = m /\ e[2] < LastDay[m])
  BY DEF IsBefore
<1>5. s[1] < m => FirstPaid(q, m) = 1 BY <1>3 DEF FirstPaid
<1>6. s[1] = m => FirstPaid(q, m) = UpTo30(s[2]) BY <1>3 DEF FirstPaid, UpTo30
<1>7. m < e[1] => LastPaid(q, m) = 30 BY <1>4 DEF LastPaid
<1>8. m = e[1] /\ e[2] < LastDay[m] => LastPaid(q, m) = UpTo30(e[2]) BY <1>4 DEF LastPaid
<1>9. m = e[1] /\ e[2] = LastDay[m] => LastPaid(q, m) = 30 BY <1>4 DEF LastPaid
<1>10. FirstPaid(q, m) \in 1..30 /\ LastPaid(q, m) \in 1..30
  BY DEF FirstPaid, LastPaid, UpTo30
<1>11. QED BY <1>10, <1>1, <1>2, <1>5, <1>6, <1>7, <1>8, <1>9

LEMMA PaidIsInt ==
  ASSUME NEW q, NEW m, FirstPaid(q, m) \in 1..30, LastPaid(q, m) \in 1..30 PROVE Paid(q, m) \in Int
<1>1. PICK a \in 1..30, b \in 1..30 : a = FirstPaid(q, m) /\ b = LastPaid(q, m) OBVIOUS
<1>2. b - a + 1 \in Int OBVIOUS
<1>3. QED BY <1>1, <1>2 DEF Paid, DaysPaid

(* Cutting a contract pays in each month what the whole paid in it, save   *)
(* that a cut after the 30th of a month of 31 days pays its 31st as well.  *)
THEOREM CutPaysTheSameMonth ==
  ASSUME NEW p \in Period, NEW d \in Cuts(p), NEW m \in Months(p)
  PROVE  Paid(First(p, d), m) + Paid(Second(p, d), m)
           = Paid(p, m) + (IF m = d[1] /\ d[2] = 30 /\ LastDay[m] = 31 THEN 1 ELSE 0)
<1> DEFINE s == p.startsOn
           e == p.endsOn
           n == NextDay(d)
<1>1. /\ s[1] \in Nat /\ s[2] \in 1..31 /\ e[1] \in Nat /\ e[2] \in 1..31
      /\ d[1] \in Nat /\ d[2] \in 1..31 /\ d[2] <= LastDay[d[1]]
      /\ LastDay[d[1]] \in 28..31 /\ e[2] <= LastDay[e[1]] /\ LastDay[e[1]] \in 28..31
      /\ s[1] < d[1] \/ (s[1] = d[1] /\ s[2] <= d[2])
      /\ d[1] < e[1] \/ (d[1] = e[1] /\ d[2] < e[2])
  BY CutNumbers, Calendar
<1>2. m \in Nat /\ s[1] <= m /\ m <= e[1] BY <1>1 DEF Months
<1>3. /\ First(p, d).startsOn = s /\ First(p, d).endsOn = d
      /\ Second(p, d).startsOn = n /\ Second(p, d).endsOn = e
  BY DEF Period, First, Second
<1>4. /\ d[2] = LastDay[d[1]] => n[1] = d[1] + 1 /\ n[2] = 1
      /\ d[2] # LastDay[d[1]] => n[1] = d[1] /\ n[2] = d[2] + 1
  BY DEF NextDay
<1>5. n[1] \in Nat /\ n[2] \in 1..31 BY <1>1, <1>4
<1>6. FirstPaid(First(p, d), m) = FirstPaid(p, m) /\ LastPaid(Second(p, d), m) = LastPaid(p, m)
  BY <1>3 DEF FirstPaid, LastPaid
<1> HIDE DEF s, e, n
<1>7. p.startsOn = s /\ p.endsOn = e BY DEF s, e
<1>8. /\ Paid(p, m) = LastPaid(p, m) - FirstPaid(p, m) + 1
      /\ FirstPaid(p, m) \in 1..30 /\ LastPaid(p, m) \in 1..30
      /\ s[1] < m => FirstPaid(p, m) = 1
      /\ m < e[1] => LastPaid(p, m) = 30
  BY <1>1, <1>2, <1>7, PaidInNumbers
<1>9. CASE m < d[1]
  <2>1. Paid(First(p, d), m) = 30 - FirstPaid(p, m) + 1
    BY <1>1, <1>2, <1>3, <1>6, <1>9, PaidInNumbers
  <2>2. m < n[1]
    <3>1. n[1] = d[1] + 1 \/ n[1] = d[1] BY <1>4
    <3>2. m \in Nat /\ d[1] \in Nat BY <1>1, <1>2
    <3>3. QED BY ONLY <1>9, <3>1, <3>2
  <2>3. Paid(Second(p, d), m) = 0 BY <1>1, <1>2, <1>3, <1>5, <2>2, PaidInNumbers
  <2>4. LastPaid(p, m) = 30 BY <1>1, <1>2, <1>8, <1>9
  <2>5. QED BY <1>1, <1>2, <1>8, <1>9, <2>1, <2>3, <2>4
<1>10. CASE m = d[1] /\ d[2] = LastDay[m]
  <2>1. Paid(First(p, d), m) = 30 - FirstPaid(p, m) + 1
    BY <1>1, <1>2, <1>3, <1>6, <1>10, PaidInNumbers
  <2>2. m < n[1] BY <1>1, <1>4, <1>10
  <2>3. Paid(Second(p, d), m) = 0 BY <1>1, <1>2, <1>3, <1>5, <2>2, PaidInNumbers
  <2>4. m < e[1] BY <1>1, <1>10
  <2>5. QED BY <1>8, <1>10, <2>1, <2>3, <2>4
<1>11. CASE m = d[1] /\ d[2] # LastDay[m]
  <2>1. d[2] < LastDay[m] /\ m <= d[1] BY <1>1, <1>11
  <2>2. Paid(First(p, d), m) = UpTo30(d[2]) - FirstPaid(p, m) + 1
    BY <1>1, <1>2, <1>3, <1>6, <1>11, <2>1, PaidInNumbers
  <2>3. n[1] = m /\ n[2] = d[2] + 1 BY <1>4, <1>11
  <2>4. Paid(Second(p, d), m) = LastPaid(p, m) - UpTo30(d[2] + 1) + 1
    BY <1>1, <1>2, <1>3, <1>5, <1>6, <2>3, PaidInNumbers
  <2>5. d[2] \in 1..30 /\ (d[2] = 30 => LastDay[m] = 31) BY <1>1, <1>11, <2>1
  <2>6. UpTo30(d[2]) - UpTo30(d[2] + 1) + 1 = IF d[2] = 30 /\ LastDay[m] = 31 THEN 1 ELSE 0
    BY <2>5 DEF UpTo30
  <2>7. UpTo30(d[2]) \in Int /\ UpTo30(d[2] + 1) \in Int BY <2>5 DEF UpTo30
  <2>8. QED BY <1>8, <1>11, <2>2, <2>4, <2>6, <2>7
<1>12. CASE d[1] < m
  <2>1. Paid(First(p, d), m) = 0 BY <1>1, <1>2, <1>3, <1>12, PaidInNumbers
  <2>2. n[1] < m \/ (n[1] = m /\ n[2] = 1) BY <1>1, <1>2, <1>4, <1>12
  <2>3. UpTo30(1) = 1 BY DEF UpTo30
  <2>4. FirstPaid(Second(p, d), m) = 1
    BY <1>1, <1>2, <1>3, <1>5, <2>2, <2>3, PaidInNumbers
  <2>5. n[1] <= m BY <1>2, <1>5, <2>2
  <2>6. Paid(Second(p, d), m) = LastPaid(p, m) - 1 + 1
    BY <1>1, <1>2, <1>3, <1>5, <1>6, <2>4, <2>5, PaidInNumbers
  <2>7. s[1] < m BY <1>1, <1>2, <1>12
  <2>8. QED BY <1>1, <1>2, <1>8, <1>12, <2>1, <2>6, <2>7
<1>13. QED BY <1>1, <1>2, <1>9, <1>10, <1>11, <1>12

-----------------------------------------------------------------------------
(* Sums over a finite set.                                                 *)
\* Induction on the subsets of a finite set, for a set of good ones: the
\* least bad one would have only good ones below it.
LEMMA AllSubsets ==
  ASSUME NEW U, IsFiniteSet(U), NEW Good,
         \A s \in SUBSET U : (\A t \in SUBSET s : t # s => t \in Good) => s \in Good
  PROVE  SUBSET U \subseteq Good
<1> DEFINE Bad == {s \in SUBSET U : s \notin Good}
<1>1. SUFFICES ASSUME Bad # {} PROVE FALSE
  OBVIOUS
<1>2. IsWellFoundedOn(StrictSubsetOrdering(U), SUBSET U)
  BY FS_StrictSubsetOrderingWellFounded, FS_FiniteSubsetsOfFinite
<1>3. Bad \subseteq SUBSET U OBVIOUS
<1> HIDE DEF Bad
<1>4. PICK s \in Bad : \A t \in Bad : ~(<<t, s>> \in StrictSubsetOrdering(U))
  BY <1>1, <1>2, <1>3, WFMin
<1>5. \A t \in SUBSET s : t # s => t \in Good
  BY <1>3, <1>4 DEF Bad, StrictSubsetOrdering
<1>6. QED BY <1>3, <1>4, <1>5 DEF Bad

\* F sums the values of f over the subsets of U, one chosen element at a time.
Pick(s) == CHOOSE x \in s : TRUE
Sums(F, f, U) == F = [s \in SUBSET U |-> IF s = {} THEN 0 ELSE f[Pick(s)] + F[s \ {Pick(s)}]]

LEMMA Picked == ASSUME NEW s, s # {} PROVE Pick(s) \in s
BY DEF Pick

LEMMA SumStep ==
  ASSUME NEW F, NEW f, NEW U, Sums(F, f, U), NEW s \in SUBSET U
  PROVE  F[s] = IF s = {} THEN 0 ELSE f[Pick(s)] + F[s \ {Pick(s)}]
<1> DEFINE body(G) == [t \in SUBSET U |-> IF t = {} THEN 0 ELSE f[Pick(t)] + G[t \ {Pick(t)}]]
<1>1. F = body(F) BY DEF Sums
<1>2. body(F)[s] = IF s = {} THEN 0 ELSE f[Pick(s)] + F[s \ {Pick(s)}] OBVIOUS
<1> HIDE DEF body
<1>3. QED BY <1>1, <1>2

\* A sum depends on the values of the elements and not on the set around them.
LEMMA SumAgrees ==
  ASSUME NEW U, IsFiniteSet(U), NEW V \in SUBSET U,
         NEW F, NEW f, Sums(F, f, U), NEW G, NEW g, Sums(G, g, V),
         \A x \in V : f[x] = g[x]
  PROVE  \A s \in SUBSET V : F[s] = G[s]
<1> DEFINE Good == {s \in SUBSET V : F[s] = G[s]}
<1>1. ASSUME NEW s \in SUBSET V, \A t \in SUBSET s : t # s => t \in Good PROVE s \in Good
  <2>1. CASE s = {} BY <2>1, SumStep
  <2>2. CASE s # {}
    <3>1. Pick(s) \in s BY <2>2, Picked
    <3>2. F[s \ {Pick(s)}] = G[s \ {Pick(s)}] BY <1>1, <3>1
    <3>3. F[s] = f[Pick(s)] + F[s \ {Pick(s)}] /\ G[s] = g[Pick(s)] + G[s \ {Pick(s)}]
      BY <2>2, SumStep
    <3>4. QED BY <1>1, <3>1, <3>2, <3>3
  <2>3. QED BY <2>1, <2>2
<1> HIDE DEF Good
<1>2. IsFiniteSet(V) BY FS_Subset
<1>3. SUBSET V \subseteq Good BY <1>1, <1>2, AllSubsets
<1>4. QED BY <1>3 DEF Good

LEMMA SumExists ==
  ASSUME NEW U, IsFiniteSet(U), NEW f PROVE \E F : Sums(F, f, U)
<1> DEFINE Good == {s \in SUBSET U : \E F : Sums(F, f, s)}
           S(s) == CHOOSE F : Sums(F, f, s)
<1>1. ASSUME NEW s \in SUBSET U, \A t \in SUBSET s : t # s => t \in Good PROVE s \in Good
  <2> DEFINE value(t) == IF t = {} THEN 0 ELSE f[Pick(t)] + S(t \ {Pick(t)})[t \ {Pick(t)}]
             F == [t \in SUBSET s |-> value(t)]
  <2>1. ASSUME NEW t \in SUBSET s, t # s PROVE Sums(S(t), f, t) BY <1>1, <2>1
  <2>2. ASSUME NEW t \in SUBSET s, t # s PROVE S(t)[t] = value(t)
    <3>1. CASE t = {} BY <2>1, <2>2, <3>1, SumStep
    <3>2. CASE t # {}
      <4> DEFINE u == t \ {Pick(t)}
      <4>1. u \in SUBSET t /\ u # s /\ t \in SUBSET U /\ IsFiniteSet(t)
        BY <2>2, <3>2, FS_Subset, Picked
      <4>2. Sums(S(t), f, t) /\ Sums(S(u), f, u) BY <2>1, <2>2, <4>1
      <4>3. S(t)[t] = f[Pick(t)] + S(t)[u] BY <3>2, <4>2, SumStep
      <4>4. S(t)[u] = S(u)[u]
        <5> HIDE DEF S, u
        <5>1. QED BY <4>1, <4>2, SumAgrees
      <4>5. QED BY <3>2, <4>3, <4>4
    <3>3. QED BY <3>1, <3>2
  <2>3. \A t \in SUBSET s : F[t] = value(t) OBVIOUS
  <2>4. ASSUME NEW t \in SUBSET s, t # {} PROVE value(t) = f[Pick(t)] + F[t \ {Pick(t)}]
    <3> DEFINE u == t \ {Pick(t)}
    <3>1. u \in SUBSET s /\ u # s BY <2>4, Picked
    <3>2. F[u] = S(u)[u]
      <4> HIDE DEF value, F, S, u
      <4>1. QED BY <2>2, <2>3, <3>1
    <3>3. QED BY <2>4, <3>2
  <2>0. \A t \in SUBSET s : t = {} => value(t) = 0 OBVIOUS
  <2>5. PICK G : G = F OBVIOUS
  <2>7. G = [t \in SUBSET s |-> value(t)] BY <2>5
  <2> HIDE DEF value, F
  <2>6. \A t \in SUBSET s : value(t) = IF t = {} THEN 0 ELSE f[Pick(t)] + G[t \ {Pick(t)}]
    BY <2>0, <2>4, <2>5
  <2>8. Sums(G, f, s) BY <2>6, <2>7 DEF Sums
  <2>9. QED BY <2>8
<1> HIDE DEF Good
<1>2. SUBSET U \subseteq Good BY <1>1, AllSubsets
<1>3. QED BY <1>2 DEF Good

\* A sum of integers over a finite set.
IntSum(F, f, U) == IsFiniteSet(U) /\ Sums(F, f, U) /\ \A x \in U : f[x] \in Int

LEMMA IntSumExists ==
  ASSUME NEW U, IsFiniteSet(U), NEW f, \A x \in U : f[x] \in Int PROVE \E F : IntSum(F, f, U)
BY SumExists DEF IntSum

LEMMA SumInt ==
  ASSUME NEW U, NEW F, NEW f, IntSum(F, f, U)
  PROVE  \A s \in SUBSET U : F[s] \in Int
<1> IsFiniteSet(U) /\ Sums(F, f, U) /\ \A x \in U : f[x] \in Int BY DEF IntSum
<1> DEFINE Good == {s \in SUBSET U : F[s] \in Int}
<1>1. ASSUME NEW s \in SUBSET U, \A t \in SUBSET s : t # s => t \in Good PROVE s \in Good
  <2>1. CASE s = {}
    <3>1. F[s] = 0 BY <2>1, SumStep
    <3>2. QED BY <3>1
  <2>2. CASE s # {}
    <3>1. Pick(s) \in s BY <2>2, Picked
    <3>2. F[s \ {Pick(s)}] \in Int BY <1>1, <3>1
    <3>3. F[s] = f[Pick(s)] + F[s \ {Pick(s)}] BY <2>2, SumStep
    <3>4. f[Pick(s)] \in Int BY <3>1
    <3>5. F[s] \in Int BY ONLY <3>2, <3>3, <3>4
    <3>6. QED BY <3>5
  <2>3. QED BY <2>1, <2>2
<1> HIDE DEF Good
<1>2. SUBSET U \subseteq Good BY <1>1, AllSubsets
<1>3. QED BY <1>2 DEF Good

\* The order in which a sum takes its elements does not matter.
LEMMA SumAny ==
  ASSUME NEW U, NEW F, NEW f, IntSum(F, f, U)
  PROVE  \A s \in SUBSET U : \A y \in s : F[s] = f[y] + F[s \ {y}]
<1> IsFiniteSet(U) /\ Sums(F, f, U) /\ \A x \in U : f[x] \in Int BY DEF IntSum
<1> DEFINE Good == {s \in SUBSET U : \A y \in s : F[s] = f[y] + F[s \ {y}]}
<1>1. ASSUME NEW s \in SUBSET U, \A t \in SUBSET s : t # s => t \in Good PROVE s \in Good
  <2>1. ASSUME NEW y \in s PROVE F[s] = f[y] + F[s \ {y}]
    <3>1. Pick(s) \in s /\ F[s] = f[Pick(s)] + F[s \ {Pick(s)}] BY <2>1, Picked, SumStep
    <3>2. PICK x \in s : x = Pick(s) BY <3>1
    <3>3. CASE x = y BY <3>1, <3>2, <3>3
    <3>4. CASE x # y
      <4>1. F[s \ {x}] = f[y] + F[(s \ {x}) \ {y}]
        <5>1. s \ {x} \in Good /\ y \in s \ {x} BY <1>1, <3>4
        <5>2. QED BY <5>1
      <4>2. F[s \ {y}] = f[x] + F[(s \ {y}) \ {x}]
        <5>1. s \ {y} \in Good /\ x \in s \ {y} BY <1>1, <3>4
        <5>2. QED BY <5>1
      <4>3. PICK t : t = (s \ {x}) \ {y} OBVIOUS
      <4>4. t = (s \ {y}) \ {x} /\ t \in SUBSET U BY <4>3
      <4>5. F[t] \in Int /\ f[x] \in Int /\ f[y] \in Int BY <4>4, SumInt
      <4>6. F[s] = f[x] + (f[y] + F[t]) /\ F[s \ {y}] = f[x] + F[t]
        BY <3>1, <3>2, <4>1, <4>2, <4>3, <4>4
      <4>7. QED BY ONLY <4>5, <4>6
    <3>5. QED BY <3>3, <3>4
  <2>2. QED BY <2>1
<1> HIDE DEF Good
<1>2. SUBSET U \subseteq Good BY <1>1, AllSubsets
<1>3. QED BY <1>2 DEF Good

\* Elements worth nothing may be left out.
LEMMA SumOfSupport ==
  ASSUME NEW U, NEW F, NEW f, IntSum(F, f, U),
         NEW V \in SUBSET U, \A x \in U \ V : f[x] = 0
  PROVE  \A s \in SUBSET U : F[s] = F[s \cap V]
<1> IsFiniteSet(U) /\ Sums(F, f, U) /\ \A x \in U : f[x] \in Int BY DEF IntSum
<1> DEFINE Good == {s \in SUBSET U : F[s] = F[s \cap V]}
<1>1. ASSUME NEW s \in SUBSET U, \A t \in SUBSET s : t # s => t \in Good PROVE s \in Good
  <2>1. CASE s \subseteq V
    <3>1. s \cap V = s BY <2>1
    <3>2. QED BY <3>1
  <2>2. CASE ~(s \subseteq V)
    <3>1. PICK x \in s : x \notin V BY <2>2
    <3>2. F[s] = f[x] + F[s \ {x}] BY SumAny
    <3>3. f[x] = 0 BY <3>1
    <3>4. (s \ {x}) \cap V = s \cap V BY <3>1
    <3>5. F[s \ {x}] = F[(s \ {x}) \cap V] BY <1>1
    <3>6. F[s \ {x}] \in Int BY SumInt
    <3>7. F[s] = F[s \ {x}] BY ONLY <3>2, <3>3, <3>6
    <3>8. QED BY <3>4, <3>5, <3>7
  <2>3. QED BY <2>1, <2>2
<1> HIDE DEF Good
<1>2. SUBSET U \subseteq Good BY <1>1, AllSubsets
<1>3. QED BY <1>2 DEF Good

LEMMA SumLinear ==
  ASSUME NEW U, NEW a \in Int, NEW b \in Int,
         NEW F, NEW f, IntSum(F, f, U), NEW G, NEW g, IntSum(G, g, U),
         NEW H, NEW h, IntSum(H, h, U), \A x \in U : h[x] = a * f[x] + b * g[x]
  PROVE  \A s \in SUBSET U : H[s] = a * F[s] + b * G[s]
<1> IsFiniteSet(U) /\ Sums(F, f, U) /\ Sums(G, g, U) /\ Sums(H, h, U) BY DEF IntSum
<1> \A x \in U : f[x] \in Int /\ g[x] \in Int BY DEF IntSum
<1> DEFINE Good == {s \in SUBSET U : H[s] = a * F[s] + b * G[s]}
<1>1. ASSUME NEW s \in SUBSET U, \A t \in SUBSET s : t # s => t \in Good PROVE s \in Good
  <2>1. CASE s = {}
    <3>1. F[s] = 0 /\ G[s] = 0 /\ H[s] = 0 BY <2>1, SumStep
    <3>2. QED BY <3>1
  <2>2. CASE s # {}
    <3>1. Pick(s) \in s BY <2>2, Picked
    <3>2. PICK t \in SUBSET U : t = s \ {Pick(s)} OBVIOUS
    <3>3. H[t] = a * F[t] + b * G[t] BY <1>1, <3>1, <3>2
    <3>4. /\ F[s] = f[Pick(s)] + F[t] /\ G[s] = g[Pick(s)] + G[t]
          /\ H[s] = h[Pick(s)] + H[t]
      <4>1. /\ F[s] = f[Pick(s)] + F[s \ {Pick(s)}]
            /\ G[s] = g[Pick(s)] + G[s \ {Pick(s)}]
            /\ H[s] = h[Pick(s)] + H[s \ {Pick(s)}]
        BY <2>2, SumStep
      <4>2. QED BY <3>2, <4>1
    <3>5. PICK x \in Int, y \in Int : x = f[Pick(s)] /\ y = g[Pick(s)] BY <3>1
    <3>6. h[Pick(s)] = a * x + b * y BY <3>1, <3>5
    <3>7. PICK z \in Int, w \in Int : z = F[t] /\ w = G[t] BY SumInt
    <3>8. a * (x + z) = a * x + a * z /\ b * (y + w) = b * y + b * w OBVIOUS
    <3>9. a * x \in Int /\ a * z \in Int /\ b * y \in Int /\ b * w \in Int OBVIOUS
    <3>10. H[s] = (a * x + b * y) + (a * z + b * w) BY <3>3, <3>4, <3>6, <3>7
    <3>a. F[s] = x + z /\ G[s] = y + w BY <3>4, <3>5, <3>7
    <3>11. a * F[s] + b * G[s] = (a * x + a * z) + (b * y + b * w)
      BY ONLY <3>8, <3>a
    <3>12. H[s] = a * F[s] + b * G[s] BY ONLY <3>9, <3>10, <3>11
    <3>13. QED BY <3>12
  <2>3. QED BY <2>1, <2>2
<1> HIDE DEF Good
<1>2. SUBSET U \subseteq Good BY <1>1, AllSubsets
<1>3. QED BY <1>2 DEF Good

LEMMA SumPlus ==
  ASSUME NEW U, NEW F, NEW f, IntSum(F, f, U), NEW G, NEW g, IntSum(G, g, U),
         NEW H, NEW h, IntSum(H, h, U), \A x \in U : h[x] = f[x] + g[x]
  PROVE  H[U] = F[U] + G[U]
<1>1. PICK one \in Int : one = 1 OBVIOUS
<1>2. \A x \in U : h[x] = one * f[x] + one * g[x] BY <1>1 DEF IntSum
<1>3. H[U] = one * F[U] + one * G[U]
  <2>1. IntSum(F, f, U) /\ IntSum(G, g, U) /\ IntSum(H, h, U) /\ one \in Int /\ U \in SUBSET U
    BY <1>1
  <2>2. QED BY ONLY <1>2, <2>1, SumLinear
<1>4. F[U] \in Int /\ G[U] \in Int BY SumInt
<1>5. QED BY <1>1, <1>3, <1>4

\* A bound on the terms bounds the sum.
LEMMA SumBounded ==
  ASSUME NEW U, NEW F, NEW f, IntSum(F, f, U), NEW b \in Nat, \A x \in U : f[x] <= b
  PROVE  \A s \in SUBSET U : F[s] <= b * Cardinality(s)
<1> IsFiniteSet(U) /\ Sums(F, f, U) /\ \A x \in U : f[x] \in Int BY DEF IntSum
<1> DEFINE Good == {s \in SUBSET U : F[s] <= b * Cardinality(s)}
<1>1. ASSUME NEW s \in SUBSET U, \A t \in SUBSET s : t # s => t \in Good PROVE s \in Good
  <2>1. CASE s = {}
    <3>1. F[s] = 0 /\ Cardinality(s) = 0 BY <2>1, SumStep, FS_EmptySet
    <3>2. QED BY <3>1
  <2>2. CASE s # {}
    <3>1. Pick(s) \in s BY <2>2, Picked
    <3>2. F[s \ {Pick(s)}] <= b * Cardinality(s \ {Pick(s)}) BY <1>1, <3>1
    <3>3. F[s] = f[Pick(s)] + F[s \ {Pick(s)}] BY <2>2, SumStep
    <3>4. f[Pick(s)] \in Int /\ f[Pick(s)] <= b BY <3>1
    <3>5. F[s \ {Pick(s)}] \in Int BY SumInt
    <3>6. PICK n \in Nat : n = Cardinality(s \ {Pick(s)}) /\ Cardinality(s) = n + 1
      <4>1. IsFiniteSet(s) BY FS_Subset
      <4>2. IsFiniteSet(s \ {Pick(s)}) /\ Cardinality(s \ {Pick(s)}) = Cardinality(s) - 1
        BY <3>1, <4>1, FS_RemoveElement
      <4>3. Cardinality(s) \in Nat /\ Cardinality(s \ {Pick(s)}) \in Nat
        BY <4>1, <4>2, FS_CardinalityType
      <4>4. QED BY <4>2, <4>3
    <3>7. b * (n + 1) = b * n + b /\ b * n \in Int OBVIOUS
    <3>8. F[s] <= b * n + b BY ONLY <3>2, <3>3, <3>4, <3>5, <3>6, <3>7
    <3>9. QED BY <3>6, <3>7, <3>8
  <2>3. QED BY <2>1, <2>2
<1> HIDE DEF Good
<1>2. SUBSET U \subseteq Good BY <1>1, AllSubsets
<1>3. QED BY <1>2 DEF Good

-----------------------------------------------------------------------------
(* The sums of the calculator.                                             *)
LEMMA DaysIsSum ==
  ASSUME NEW p, NEW U, IsFiniteSet(U), Months(p) \in SUBSET U,
         NEW F, NEW f, Sums(F, f, U), \A m \in Months(p) : f[m] = DaysPaid(p, m)
  PROVE  Days(p) = F[Months(p)]
<1> DEFINE g == [m \in Months(p) |-> DaysPaid(p, m)]
           Body(G) == [s \in SUBSET Months(p) |->
                         IF s = {} THEN 0 ELSE DaysPaid(p, Pick(s)) + G[s \ {Pick(s)}]]
           Iter == CHOOSE G : G = Body(G)
<1>1. IsFiniteSet(Months(p)) BY FS_Subset
<1>2. PICK G : Sums(G, g, Months(p))
  <2> HIDE DEF g
  <2>1. QED BY <1>1, SumExists
<1>3. ASSUME NEW H PROVE Sums(H, g, Months(p)) <=> H = Body(H)
  <2>1. \A s \in SUBSET Months(p) : s # {} => g[Pick(s)] = DaysPaid(p, Pick(s)) BY Picked
  <2> HIDE DEF g
  <2>2. QED BY <2>1 DEF Sums
<1>4. Iter = Body(Iter)
  <2>1. G = Body(G) BY <1>2, <1>3
  <2> HIDE DEF Body
  <2>2. QED BY <2>1
<1>5. Days(p) = Iter[Months(p)]
  BY DEF Days, MapThenSumSet, MapThenFoldSet, Pick
<1>6. Sums(Iter, g, Months(p)) BY <1>3, <1>4
<1>7. \A x \in Months(p) : f[x] = g[x] OBVIOUS
<1> HIDE DEF g, Iter
<1>8. PICK V : V = Months(p) OBVIOUS
<1>9. V \in SUBSET U /\ Sums(Iter, g, V) /\ \A x \in V : f[x] = g[x] BY <1>6, <1>7, <1>8
<1>10. \A s \in SUBSET V : F[s] = Iter[s] BY <1>9, SumAgrees
<1>11. QED BY <1>5, <1>8, <1>10

LEMMA TotalIsSum ==
  ASSUME NEW value, NEW p, NEW U, IsFiniteSet(U), Months(p) \in SUBSET U,
         NEW F, NEW f, Sums(F, f, U), \A m \in Months(p) : f[m] = Rounded(value, DaysPaid(p, m))
  PROVE  Total(value, p) = F[Months(p)]
<1> DEFINE g == [m \in Months(p) |-> Rounded(value, DaysPaid(p, m))]
           Body(G) == [s \in SUBSET Months(p) |->
                         IF s = {} THEN 0 ELSE Rounded(value, DaysPaid(p, Pick(s))) + G[s \ {Pick(s)}]]
           Iter == CHOOSE G : G = Body(G)
<1>1. IsFiniteSet(Months(p)) BY FS_Subset
<1>2. PICK G : Sums(G, g, Months(p))
  <2> HIDE DEF g
  <2>1. QED BY <1>1, SumExists
<1>3. ASSUME NEW H PROVE Sums(H, g, Months(p)) <=> H = Body(H)
  <2>1. \A s \in SUBSET Months(p) : s # {} => g[Pick(s)] = Rounded(value, DaysPaid(p, Pick(s))) BY Picked
  <2> HIDE DEF g
  <2>2. QED BY <2>1 DEF Sums
<1>4. Iter = Body(Iter)
  <2>1. G = Body(G) BY <1>2, <1>3
  <2> HIDE DEF Body
  <2>2. QED BY <2>1
<1>5. Total(value, p) = Iter[Months(p)]
  BY DEF Total, MapThenSumSet, MapThenFoldSet, Pick
<1>6. Sums(Iter, g, Months(p)) BY <1>3, <1>4
<1>7. \A x \in Months(p) : f[x] = g[x] OBVIOUS
<1> HIDE DEF g, Iter
<1>8. PICK V : V = Months(p) OBVIOUS
<1>9. V \in SUBSET U /\ Sums(Iter, g, V) /\ \A x \in V : f[x] = g[x] BY <1>6, <1>7, <1>8
<1>10. \A s \in SUBSET V : F[s] = Iter[s] BY <1>9, SumAgrees
<1>11. QED BY <1>5, <1>8, <1>10

\* The months of a contract, or of a part of it, are finitely many.
LEMMA FiniteMonths ==
  ASSUME NEW p \in Period
  PROVE  IsFiniteSet(Months(p)) /\ Cardinality(Months(p)) \in Nat \ {0}
<1>1. p.startsOn[1] \in Nat /\ p.endsOn[1] \in Nat /\ p.startsOn[1] <= p.endsOn[1]
  <2>1. p.startsOn \in Date /\ p.endsOn \in Date /\ ~IsBefore(p.endsOn, p.startsOn) BY DEF Period
  <2>2. p.startsOn[1] \in 1..Len(LastDay) /\ p.endsOn[1] \in 1..Len(LastDay) BY <2>1, Dates
  <2>3. Len(LastDay) \in Nat BY HourlyPayAssumption
  <2>4. p.startsOn[1] \in Nat /\ p.endsOn[1] \in Nat BY <2>2, <2>3
  <2>5. ~(p.endsOn[1] < p.startsOn[1]) BY <2>1 DEF IsBefore
  <2>6. QED BY ONLY <2>4, <2>5
<1>2. PICK a \in Nat, b \in Nat : a = p.startsOn[1] /\ b = p.endsOn[1] /\ a <= b BY <1>1
<1>3. IsFiniteSet(a..b) /\ Cardinality(a..b) = b - a + 1
  <2>1. a \in Int /\ b \in Int /\ ~(a > b) BY ONLY <1>2
  <2>2. QED BY <2>1, FS_Interval
<1>4. b - a + 1 \in Nat \ {0} BY ONLY <1>2
<1>5. Months(p) = a..b BY <1>2 DEF Months
<1>6. QED BY <1>3, <1>4, <1>5

\* A part of a contract is paid within the months of the whole.
LEMMA PartIsSum ==
  ASSUME NEW q, NEW U, Months(q) \in SUBSET U,
         NEW F, NEW f, IntSum(F, f, U), \A m \in U : f[m] = Paid(q, m)
  PROVE  Days(q) = F[U]
<1>1. \A m \in Months(q) : f[m] = DaysPaid(q, m) BY DEF Paid
<1>2. Days(q) = F[Months(q)] BY <1>1, DaysIsSum DEF IntSum
<1>3. \A m \in U \ Months(q) : f[m] = 0 BY DEF Paid
<1>4. PICK V : V = Months(q) OBVIOUS
<1>5. V \in SUBSET U /\ \A m \in U \ V : f[m] = 0 BY <1>3, <1>4
<1>6. \A s \in SUBSET U : F[s] = F[s \cap V] BY <1>5, SumOfSupport
<1>7. U \cap V = V BY <1>5
<1>8. QED BY <1>2, <1>4, <1>6, <1>7

\* Two parts that make up the whole in every element but d sum to the whole
\* and what they pay more in d.
LEMMA SumOfParts ==
  ASSUME NEW U, NEW d \in U, NEW extra \in Int,
         NEW F0, NEW f0, IntSum(F0, f0, U), NEW F1, NEW f1, IntSum(F1, f1, U),
         NEW F2, NEW f2, IntSum(F2, f2, U),
         f1[d] + f2[d] = f0[d] + extra, \A m \in U : m # d => f1[m] + f2[m] = f0[m]
  PROVE  F1[U] + F2[U] = F0[U] + extra
<1> DEFINE x == [m \in U |-> IF m = d THEN extra ELSE 0]
           h == [m \in U |-> f1[m] + f2[m]]
<1>1. /\ IsFiniteSet(U)
      /\ \A m \in U : f0[m] \in Int
      /\ \A m \in U : f1[m] \in Int
      /\ \A m \in U : f2[m] \in Int
  BY DEF IntSum
<1>2. x[d] = extra /\ (\A m \in U : x[m] \in Int) /\ \A m \in U \ {d} : x[m] = 0 OBVIOUS
<1>3. \A m \in U : h[m] = f1[m] + f2[m] /\ h[m] = f0[m] + x[m] BY <1>1
<1> HIDE DEF x, h
<1>4. \A m \in U : h[m] \in Int BY <1>1, <1>3
<1>5. PICK X : IntSum(X, x, U) BY <1>1, <1>2, IntSumExists
<1>6. PICK H : IntSum(H, h, U) BY <1>1, <1>4, IntSumExists
<1>7. PICK V : V = {d} OBVIOUS
<1>8. V \in SUBSET U /\ d \in V /\ \A m \in U \ V : x[m] = 0 BY <1>2, <1>7
<1>9. \A s \in SUBSET U : X[s] = X[s \cap V] BY ONLY <1>5, <1>8, SumOfSupport
<1>10. X[V] = x[d] + X[V \ {d}] BY ONLY <1>5, <1>8, SumAny
<1>11. X[{}] = 0 BY <1>5, SumStep DEF IntSum
<1>12. X[U] = extra
  <2>1. U \cap V = V /\ V \ {d} = {} BY <1>7, <1>8
  <2>2. X[U] = X[V] BY <1>9, <2>1
  <2>4. X[V] = extra + 0 BY <1>2, <1>10, <1>11, <2>1
  <2>5. extra + 0 = extra OBVIOUS
  <2>6. QED BY ONLY <2>2, <2>4, <2>5
<1>0. IntSum(F0, f0, U) /\ IntSum(F1, f1, U) /\ IntSum(F2, f2, U) OBVIOUS
<1>13. H[U] = F1[U] + F2[U]
  <2>1. \A m \in U : h[m] = f1[m] + f2[m] BY <1>3
  <2>2. QED BY ONLY <1>0, <1>6, <2>1, SumPlus
<1>14. H[U] = F0[U] + X[U]
  <2>1. \A m \in U : h[m] = f0[m] + x[m] BY <1>3
  <2>2. QED BY ONLY <1>0, <1>5, <1>6, <2>1, SumPlus
<1>15. F0[U] \in Int /\ F1[U] \in Int /\ F2[U] \in Int BY ONLY <1>0, SumInt
<1>16. QED BY ONLY <1>12, <1>13, <1>14, <1>15

(* Cutting a contract in two pays the days of the whole, save that a cut   *)
(* after the 30th of a month of 31 days pays its 31st as well.             *)
THEOREM CutPaysTheSame ==
  ASSUME NEW p \in Period, NEW d \in Cuts(p)
  PROVE  Days(First(p, d)) + Days(Second(p, d))
           = Days(p) + (IF d[2] = 30 /\ LastDay[d[1]] = 31 THEN 1 ELSE 0)
<1>1. PICK U : U = Months(p) OBVIOUS
<1>2. PICK q1 : q1 = First(p, d) OBVIOUS
<1>3. PICK q2 : q2 = Second(p, d) OBVIOUS
<1>4. IsFiniteSet(U) BY <1>1, FiniteMonths
<1>5. /\ p.startsOn[1] \in Nat /\ p.startsOn[2] \in 1..31
      /\ p.endsOn[1] \in Nat /\ p.endsOn[2] \in 1..31
      /\ d[1] \in Nat /\ d[2] \in 1..31 /\ LastDay[d[1]] \in 28..31 /\ d[2] <= LastDay[d[1]]
      /\ p.startsOn[1] <= d[1] /\ d[1] <= p.endsOn[1]
  BY CutNumbers
<1>6. /\ NextDay(d)[1] \in Nat /\ NextDay(d)[2] \in 1..31 /\ d[1] <= NextDay(d)[1]
  BY <1>5 DEF NextDay
<1>7. /\ q1.startsOn = p.startsOn /\ q1.endsOn = d
      /\ q2.startsOn = NextDay(d) /\ q2.endsOn = p.endsOn
  BY <1>2, <1>3 DEF Period, First, Second
<1>8. /\ Months(p) \in SUBSET U /\ Months(q1) \in SUBSET U /\ Months(q2) \in SUBSET U
      /\ d[1] \in U /\ U \subseteq Nat
  BY <1>1, <1>5, <1>6, <1>7 DEF Months
<1>9. ASSUME NEW m \in U
      PROVE  Paid(p, m) \in Int /\ Paid(q1, m) \in Int /\ Paid(q2, m) \in Int
  <2>1. /\ FirstPaid(p, m) \in 1..30 /\ LastPaid(p, m) \in 1..30
        /\ FirstPaid(q1, m) \in 1..30 /\ LastPaid(q1, m) \in 1..30
        /\ FirstPaid(q2, m) \in 1..30 /\ LastPaid(q2, m) \in 1..30
    BY <1>5, <1>6, <1>7, <1>8, PaidInNumbers
  <2>2. QED BY <2>1, PaidIsInt
<1>10. PICK extra \in Int : extra = IF d[2] = 30 /\ LastDay[d[1]] = 31 THEN 1 ELSE 0 OBVIOUS
<1>11. ASSUME NEW m \in U
       PROVE  Paid(q1, m) + Paid(q2, m) = Paid(p, m) + (IF m = d[1] THEN extra ELSE 0)
  BY <1>1, <1>2, <1>3, <1>10, CutPaysTheSameMonth
<1>12. PICK f0 : f0 = [m \in U |-> Paid(p, m)] OBVIOUS
<1>13. PICK f1 : f1 = [m \in U |-> Paid(q1, m)] OBVIOUS
<1>14. PICK f2 : f2 = [m \in U |-> Paid(q2, m)] OBVIOUS
<1>15. /\ \A m \in U : f0[m] = Paid(p, m) /\ f0[m] \in Int
       /\ \A m \in U : f1[m] = Paid(q1, m) /\ f1[m] \in Int
       /\ \A m \in U : f2[m] = Paid(q2, m) /\ f2[m] \in Int
  BY <1>9, <1>12, <1>13, <1>14
<1>16. PICK F0 : IntSum(F0, f0, U) BY <1>4, <1>15, IntSumExists
<1>17. PICK F1 : IntSum(F1, f1, U) BY <1>4, <1>15, IntSumExists
<1>18. PICK F2 : IntSum(F2, f2, U) BY <1>4, <1>15, IntSumExists
<1>19. Days(p) = F0[U]
  <2>1. Months(p) \in SUBSET U BY <1>8
  <2>2. \A m \in U : f0[m] = Paid(p, m) BY <1>15
  <2>3. QED BY ONLY <1>16, <2>1, <2>2, PartIsSum
<1>20. Days(q1) = F1[U]
  <2>1. Months(q1) \in SUBSET U BY <1>8
  <2>2. \A m \in U : f1[m] = Paid(q1, m) BY <1>15
  <2>3. QED BY ONLY <1>17, <2>1, <2>2, PartIsSum
<1>21. Days(q2) = F2[U]
  <2>1. Months(q2) \in SUBSET U BY <1>8
  <2>2. \A m \in U : f2[m] = Paid(q2, m) BY <1>15
  <2>3. QED BY ONLY <1>18, <2>1, <2>2, PartIsSum
<1>22. F1[U] + F2[U] = F0[U] + extra
  <2>1. PICK e : e = d[1] OBVIOUS
  <2>2. e \in U BY <1>8, <2>1
  <2>3. \A m \in U : m # e => f1[m] + f2[m] = f0[m] BY <1>9, <1>11, <1>15, <2>1
  <2>4. f1[e] + f2[e] = f0[e] + extra BY <1>9, <1>11, <1>15, <2>1, <2>2
  <2>5. extra \in Int BY <1>10
  <2>6. QED BY ONLY <1>16, <1>17, <1>18, <2>2, <2>3, <2>4, <2>5, SumOfParts
<1>23. QED BY <1>2, <1>3, <1>10, <1>19, <1>20, <1>21, <1>22

\* What is bounded term by term is bounded in the sum.
LEMMA SumOfErrors ==
  ASSUME NEW U, NEW R, NEW r, IntSum(R, r, U), NEW D, NEW d, IntSum(D, d, U),
         NEW a \in Int, NEW c \in Int, NEW b \in Nat,
         \A m \in U : a * r[m] + c * d[m] <= b
  PROVE  a * R[U] + c * D[U] <= b * Cardinality(U)
<1> DEFINE e == [m \in U |-> a * r[m] + c * d[m]]
<1>1. IsFiniteSet(U) /\ \A m \in U : r[m] \in Int /\ d[m] \in Int BY DEF IntSum
<1>2. \A m \in U : e[m] \in Int
  <2>1. ASSUME NEW m \in U PROVE e[m] \in Int
    <3>1. PICK x \in Int, y \in Int : x = r[m] /\ y = d[m] BY <1>1
    <3>2. a * x + c * y \in Int OBVIOUS
    <3>3. QED BY <3>1, <3>2
  <2>2. QED BY <2>1
<1>3. \A m \in U : e[m] = a * r[m] + c * d[m] OBVIOUS
<1>4. \A m \in U : e[m] <= b OBVIOUS
<1> HIDE DEF e
<1>5. PICK E : IntSum(E, e, U) BY <1>1, <1>2, IntSumExists
<1>6. IntSum(R, r, U) /\ IntSum(D, d, U) /\ a \in Int /\ c \in Int /\ b \in Nat /\ U \in SUBSET U
  OBVIOUS
<1>7. E[U] = a * R[U] + c * D[U] BY ONLY <1>3, <1>5, <1>6, SumLinear
<1>8. E[U] <= b * Cardinality(U) BY ONLY <1>4, <1>5, <1>6, SumBounded
<1>9. QED BY <1>7, <1>8

(* Rounding every month moves what a contract pays by half a peso for each *)
(* of its months at most, and by less when it takes.                       *)
THEOREM RoundingOfAContract ==
  ASSUME NEW p \in Period, NEW value \in Nat
  PROVE  /\ Total(value, p) \in Int /\ Days(p) \in Int
         /\ 60 * Total(value, p) - 2 * value * Days(p) <= 30 * Cardinality(Months(p))
         /\ 2 * value * Days(p) - 60 * Total(value, p) < 30 * Cardinality(Months(p))
<1>1. PICK U : U = Months(p) OBVIOUS
<1>2. IsFiniteSet(U) /\ Cardinality(U) \in Nat \ {0} BY <1>1, FiniteMonths
<1>3. PICK r : r = [m \in U |-> Rounded(value, DaysPaid(p, m))] OBVIOUS
<1>4. PICK d : d = [m \in U |-> DaysPaid(p, m)] OBVIOUS
<1>5. PICK c \in Int : c = 2 * value OBVIOUS
<1>6. ASSUME NEW m \in U
      PROVE  /\ r[m] \in Int /\ d[m] \in Int
             /\ 60 * r[m] + (-c) * d[m] <= 30 /\ (-60) * r[m] + c * d[m] <= 29
  <2>1. PICK n \in 1..30 : n = DaysPaid(p, m) BY <1>1, NoMonthIsOverpaid
  <2>2. r[m] = Rounded(value, n) /\ d[m] = n BY <1>3, <1>4, <2>1
  <2>3. Rounded(value, n) \in Int
    <3>1. 2 * value * n + 30 \in Int OBVIOUS
    <3>2. QED BY <3>1 DEF Rounded
  <2>4. PICK x \in Int : x = Rounded(value, n) BY <2>3
  <2>5. 60 * x - 2 * value * n <= 30 /\ 2 * value * n - 60 * x < 30 BY <2>4, RoundingOfAMonth
  <2>6. PICK w \in Int : w = c * n OBVIOUS
  <2>7. 2 * value * n = w /\ (-c) * n = -w BY <1>5, <2>6
  <2>8. 60 * x + (-w) <= 30 /\ (-60) * x + w <= 29 BY ONLY <2>4, <2>5, <2>6, <2>7
  <2>9. QED BY <2>2, <2>4, <2>6, <2>7, <2>8
<1>7. PICK R : IntSum(R, r, U) BY <1>2, <1>6, IntSumExists
<1>8. PICK D : IntSum(D, d, U) BY <1>2, <1>6, IntSumExists
<1>9. Total(value, p) = R[U]
  <2>1. Months(p) \in SUBSET U /\ \A m \in Months(p) : r[m] = Rounded(value, DaysPaid(p, m))
    BY <1>1, <1>3
  <2>2. Sums(R, r, U) BY <1>7 DEF IntSum
  <2>3. QED BY <1>1, <1>2, <2>1, <2>2, TotalIsSum
<1>10. Days(p) = D[U]
  <2>1. Months(p) \in SUBSET U /\ \A m \in Months(p) : d[m] = DaysPaid(p, m) BY <1>1, <1>4
  <2>2. Sums(D, d, U) BY <1>8 DEF IntSum
  <2>3. QED BY <1>1, <1>2, <2>1, <2>2, DaysIsSum
<1>11. 60 * R[U] + (-c) * D[U] <= 30 * Cardinality(U)
  <2>1. 60 \in Int /\ -c \in Int /\ 30 \in Nat OBVIOUS
  <2>2. \A m \in U : 60 * r[m] + (-c) * d[m] <= 30 BY <1>6
  <2>3. QED BY ONLY <1>7, <1>8, <2>1, <2>2, SumOfErrors
<1>12. (-60) * R[U] + c * D[U] <= 29 * Cardinality(U)
  <2>1. -60 \in Int /\ c \in Int /\ 29 \in Nat OBVIOUS
  <2>2. \A m \in U : (-60) * r[m] + c * d[m] <= 29 BY <1>6
  <2>3. QED BY ONLY <1>7, <1>8, <2>1, <2>2, SumOfErrors
<1>13. PICK x \in Int, y \in Int : x = R[U] /\ y = D[U] BY <1>7, <1>8, SumInt
<1>14. PICK k \in Nat \ {0} : k = Cardinality(U) BY <1>2
<1>15. PICK w \in Int : w = c * y OBVIOUS
<1>16. (-c) * y = -w /\ 2 * value * y = w BY <1>5, <1>15
<1>17. 60 * x + (-w) <= 30 * k /\ (-60) * x + w <= 29 * k
  BY <1>11, <1>12, <1>13, <1>14, <1>15, <1>16
<1>18. 60 * x - w <= 30 * k /\ w - 60 * x < 30 * k BY ONLY <1>13, <1>14, <1>15, <1>17
<1>19. QED BY <1>1, <1>9, <1>10, <1>13, <1>14, <1>16, <1>18

(* What a contract pays is what its days are worth, however it is cut, for *)
(* every contract a form may have saved.                                   *)
THEOREM PaymentsAlwaysAddUp == PaySpec => []PaymentsAddUp
<1>1. PayTypeOK => PaymentsAddUp
  <2> SUFFICES ASSUME PayTypeOK PROVE PaymentsAddUp OBVIOUS
  <2>1. ASSUME NEW i \in Saved
        PROVE  payContracts[i].period \in Period /\ payContracts[i].value \in Nat
    BY <2>1, HourlyPayAssumption DEF PayTypeOK, Saved, Signed
  <2>2. SplitPaysTheSame
    <3>1. ASSUME NEW i \in Saved, NEW p, p = payContracts[i].period, NEW d \in Cuts(p)
          PROVE  Days([p EXCEPT !.endsOn = d]) + Days([p EXCEPT !.startsOn = NextDay(d)])
                   = Days(p) + (IF d[2] = 30 /\ LastDay[d[1]] = 31 THEN 1 ELSE 0)
      BY <2>1, <3>1, CutPaysTheSame DEF First, Second
    <3>2. QED BY <3>1 DEF SplitPaysTheSame, Cuts
  <2>3. RoundingIsBounded
    <3>1. ASSUME NEW i \in Saved, NEW p, NEW v, p = payContracts[i].period, v = payContracts[i].value
          PROVE  LET error == 60 * Total(v, p) - 2 * v * Days(p)
                 IN  error <= 30 * Cardinality(Months(p)) /\ -error < 30 * Cardinality(Months(p))
      <4>1. p \in Period /\ v \in Nat BY <2>1, <3>1
      <4>2. PICK x : x = Total(v, p) OBVIOUS
      <4>3. PICK y : y = Days(p) OBVIOUS
      <4>4. PICK k : k = Cardinality(Months(p)) OBVIOUS
      <4>5. 60 * x - 2 * v * y <= 30 * k /\ 2 * v * y - 60 * x < 30 * k
        BY <4>1, <4>2, <4>3, <4>4, RoundingOfAContract
      <4>6. x \in Int /\ y \in Int BY <4>1, <4>2, <4>3, RoundingOfAContract
      <4>7. PICK w \in Int : w = 2 * v * y BY <4>1, <4>6
      <4>8. -(60 * x - w) = w - 60 * x BY <4>6
      <4>9. QED BY <4>2, <4>3, <4>4, <4>5, <4>7, <4>8
    <3>2. QED BY <3>1 DEF RoundingIsBounded
  <2>4. QED BY <2>2, <2>3, EveryFullMonthPays30Days DEF PaymentsAddUp
<1>2. QED BY <1>1, PayTypeCorrect, PTL
=============================================================================
