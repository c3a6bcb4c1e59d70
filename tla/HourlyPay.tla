----------------------------- MODULE HourlyPay ------------------------------
(***************************************************************************)
(* The hourly contracts of one teacher in the active semester, the rates   *)
(* they are signed at, and what they pay.  A contract pays its monthly     *)
(* value in commercial months of 30 days, each month rounded half up.      *)
(*                                                                         *)
(* The months of the semester are 1..N with their last days; a date is     *)
(* <<month, day>>.  A key is a component and a parallel of an NRC that is  *)
(* assigned to the teacher (Catalog says which are), a rate is a category  *)
(* with a degree, and a value stands for rate times direct hours.          *)
(***************************************************************************)
EXTENDS Integers, Sequences, FiniteSetsExt

CONSTANTS
  LastDay,      \* the last day of each month, a sequence
  PayDay,       \* the days contracts start or end on
  Rate, Key, Contract,
  Value         \* the values rates take, positive

ASSUME HourlyPayAssumption ==
  /\ LastDay \in Seq(28..31) /\ PayDay \subseteq 1..31
  /\ Value \subseteq Nat \ {0}

VARIABLES
  rates,       \* the value of each HourlyPayRate; 0 before it is set
  payContracts \* the HourlyTeachingContract of each id, or NoContract

payVars == <<rates, payContracts>>

-----------------------------------------------------------------------------
(* The calculator.                                                         *)
IsBefore(a, b) == a[1] < b[1] \/ (a[1] = b[1] /\ a[2] < b[2])
Date == {x \in (1..Len(LastDay)) \X PayDay : x[2] <= LastDay[x[1]]}
Period == {p \in [startsOn : Date, endsOn : Date] : ~IsBefore(p.endsOn, p.startsOn)}

UpTo30_Mut(d) == d   \* a 31st counts
UpTo30(d) == IF d > 30 THEN 30 ELSE d

FirstPaid(p, m) == IF IsBefore(<<m, 1>>, p.startsOn) THEN UpTo30(p.startsOn[2]) ELSE 1
LastPaid(p, m) == IF IsBefore(p.endsOn, <<m, LastDay[m]>>) THEN UpTo30(p.endsOn[2]) ELSE 30
DaysPaid(p, m) == LastPaid(p, m) - FirstPaid(p, m) + 1

Months(p) == p.startsOn[1]..p.endsOn[1]
Days(p) == MapThenSumSet(LAMBDA m : DaysPaid(p, m), Months(p))

Rounded(value, days) == (2 * value * days + 30) \div 60   \* half up
Total(value, p) == MapThenSumSet(LAMBDA m : Rounded(value, DaysPaid(p, m)), Months(p))

-----------------------------------------------------------------------------
NoContract == [key |-> "none"]
Signed == [key : Key, rate : Rate, value : Value, period : Period]
Saved == {i \in Contract : payContracts[i] # NoContract}

PayTypeOK ==
  /\ rates \in [Rate -> Value \cup {0}]
  /\ payContracts \in [Contract -> {NoContract} \cup Signed]
  /\ \A i, j \in Saved : payContracts[i].key = payContracts[j].key => i = j

PayInit ==
  /\ rates = [r \in Rate |-> 0]
  /\ payContracts = [i \in Contract |-> NoContract]

SetRate(r, v) == rates' = [rates EXCEPT ![r] = v] /\ UNCHANGED payContracts

\* The rate a line pays: the contract's own while it stays on its rate.
ValueOf_Mut(i, r) == rates[r]
ValueOf(i, r) == IF i \in Saved /\ payContracts[i].rate = r THEN payContracts[i].value ELSE rates[r]

\* A form is the complete list of lines: pairwise different ids and keys.  The
\* lines of a form have one period here.
Lines == {l \in [Contract -> {NoContract} \cup [key : Key, rate : Rate]] :
            \A i, j \in Contract : l[i] # NoContract /\ l[j] # NoContract /\ l[i].key = l[j].key => i = j}
Listed(l) == {i \in Contract : l[i] # NoContract}

\* The lines are written one by one, in the order of the form, over the unique
\* key: one that takes the key of a contract further down is refused, and the
\* whole form with it.
Writable(l, order) ==
  \A i, j \in Listed(l) : i # j /\ order[i] < order[j] /\ j \in Saved => l[i].key # payContracts[j].key
Orders == {o \in [Contract -> 1..Cardinality(Contract)] : \A i, j \in Contract : o[i] = o[j] => i = j}

UsableRate(r) == rates[r] # 0

\* removeOmitted and sync, one serializable transaction.
SaveContracts(l, p) ==
  /\ \A i \in Listed(l) : UsableRate(l[i].rate)
  /\ \E order \in Orders : Writable(l, order)
  /\ payContracts' = [i \in Contract |->
       IF i \notin Listed(l) THEN NoContract
       ELSE [key |-> l[i].key, rate |-> l[i].rate, value |-> ValueOf(i, l[i].rate), period |-> p]]
  /\ UNCHANGED rates

PayNext ==
  \/ \E r \in Rate, v \in Value : SetRate(r, v)
  \/ \E l \in Lines, p \in Period : SaveContracts(l, p)

PaySpec == PayInit /\ [][PayNext]_payVars

-----------------------------------------------------------------------------
(* Splitting a contract in two, the second from the day after the first    *)
(* ends, pays the same days, save that a contract cut after the 30th of a  *)
(* month of 31 days is paid the 31st as well (docs: the 31st counts as the *)
(* 30th).  A month covered from end to end pays 30 days, February too.      *)
NextDay(d) == IF d[2] = LastDay[d[1]] THEN <<d[1] + 1, 1>> ELSE <<d[1], d[2] + 1>>
AllDates == {x \in (1..Len(LastDay)) \X (1..31) : x[2] <= LastDay[x[1]]}
SplitPaysTheSame ==
  \A i \in Saved : LET p == payContracts[i].period IN
    \A cut \in {d \in AllDates : ~IsBefore(d, p.startsOn) /\ IsBefore(d, p.endsOn)} :
      Days([p EXCEPT !.endsOn = cut]) + Days([p EXCEPT !.startsOn = NextDay(cut)])
        = Days(p) + (IF cut[2] = 30 /\ LastDay[cut[1]] = 31 THEN 1 ELSE 0)
FullMonthsPay30Days ==
  \A m \in 1..Len(LastDay) : DaysPaid([startsOn |-> <<m, 1>>, endsOn |-> <<m, LastDay[m]>>], m) = 30

(* Rounding every month moves the total by half a peso per month at most.  *)
RoundingIsBounded ==
  \A i \in Saved : LET c == payContracts[i]
                       error == 60 * Total(c.value, c.period) - 2 * c.value * Days(c.period)
                   IN /\ error <= 30 * Cardinality(Months(c.period))
                      /\ -error < 30 * Cardinality(Months(c.period))

(* What a contract pays is what its days are worth, however it is cut.     *)
PaymentsAddUp == SplitPaysTheSame /\ FullMonthsPay30Days /\ RoundingIsBounded

(* A new value of a rate does not reprice the contracts signed at it: a    *)
(* contract that stays on its rate keeps the value it was signed at,       *)
(* whatever else the form changes.                                         *)
KeptRateKeepsItsValue ==
  [][\A i \in Saved : payContracts'[i] # NoContract /\ payContracts'[i].rate = payContracts[i].rate
       => payContracts'[i].value = payContracts[i].value]_payVars
=============================================================================
