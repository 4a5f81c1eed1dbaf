-------------------------------- MODULE Tariff --------------------------------
(***************************************************************************)
(* tariff.lua and fixip/tariff.lua: what a payment buys, what a time       *)
(* costs, and which acl files there are.  A tariff is a line with a time,  *)
(* an amount and, for fixed addresses, an acl file; dearer ones come first.*)
(* A client is quoted a price for a time and pays it.                      *)
(***************************************************************************)
EXTENDS Integers, Sequences, SequencesExt

CONSTANTS Tariffs,     \* the tables there may be
          MaxInt,      \* the largest number util.toint can represent
          Wanted,      \* times that are asked for
          DefaultAcl, NoAcl

\* A time and an amount are digits (parse); none is 0, as one divides by them.
ASSUME TariffAssumption ==
  /\ \A tab \in Tariffs :
       /\ tab \in Seq(ToSet(tab)) /\ tab # <<>>
       /\ \A l \in ToSet(tab) : l.time \in Nat \ {0} /\ l.amount \in Nat \ {0}
  /\ Wanted \subseteq Nat
  /\ MaxInt \in Nat

VARIABLES table, want,
          quoted, got    \* -1 as long as it is not known

tariffVars == <<table, want, quoted, got>>

\* Mutant of Share: math.floor in place of math.ceil.
ShareDown(x, y, z) == (x * y) \div z

\* math.ceil(x * y / z)
Share(x, y, z) == -((-(x * y)) \div z)

\* toint: a number that cannot be represented becomes 0.
ToInt(n) == IF n <= MaxInt THEN n ELSE 0

\* The first tariff that a payment reaches, and the first that is not longer
\* than a time; 0 if there is none.
Reached(tab, pay) == SelectInSeq(tab, LAMBDA l : pay >= l.amount)
NotLonger(tab, t) == SelectInSeq(tab, LAMBDA l : t >= l.time)

\* time(payment): the share of the first tariff that the payment reaches.
Time(tab, pay) ==
  LET i == Reached(tab, pay)
  IN  IF i = 0 THEN 0 ELSE ToInt(Share(tab[i].time, pay, tab[i].amount))

\* payment(time): the first tariff that is not longer, at most the price of the
\* one before; a shorter time costs as much as the shortest.
Payment(tab, t) ==
  LET i     == NotLonger(tab, t)
      price == ToInt(Share(tab[i].amount, t, tab[i].time))
  IN  CASE i = 0 -> tab[Len(tab)].amount
        [] i > 1 /\ price > tab[i - 1].amount -> tab[i - 1].amount
        [] OTHER -> price

\* Mutant of AclFiles: only files that are named are searched.
AclFilesNamed(tab) == {tab[i].acl : i \in DOMAIN tab} \ {NoAcl}

\* aclfiles(): the files that are named, and the default one if the first
\* tariff names none.
AclFiles(tab) ==
  ({tab[i].acl : i \in DOMAIN tab} \ {NoAcl})
    \cup (IF tab[1].acl = NoAcl THEN {DefaultAcl} ELSE {})

\* choose(payment): the file named last up to the tariff that is reached.
LastNamed(tab) == SelectLastInSeq(tab, LAMBDA l : l.acl # NoAcl)
ChosenAcl(tab, pay) ==
  LET k == LastNamed(SubSeq(tab, 1, Reached(tab, pay)))
  IN  IF k = 0 THEN DefaultAcl ELSE tab[k].acl

TariffInit ==
  /\ table \in Tariffs /\ want \in Wanted
  /\ quoted = -1 /\ got = -1

Quote ==
  /\ quoted = -1
  /\ quoted' = Payment(table, want)
  /\ UNCHANGED <<table, want, got>>

\* topup refuses a payment that buys less than a second.
Pay ==
  /\ quoted # -1 /\ got = -1
  /\ got' = Time(table, quoted)
  /\ UNCHANGED <<table, want, quoted>>

TariffNext == Quote \/ Pay

TariffSpec == TariffInit /\ [][TariffNext]_tariffVars

----------------------------------------------------------------------------
\* The products that the price and the time are computed with can be
\* represented.
Fits ==
  \A i \in DOMAIN table : /\ table[i].amount * want <= MaxInt
                          /\ quoted * table[i].time <= MaxInt

\* Whoever pays the price that was quoted for a time gets that time, whatever
\* is rounded; or, after an overflow, nothing, and then nothing is charged
\* (payment, time, topup).
QuotedPriceBuysTheTime ==
  got # -1 => got >= want \/ (got = 0 /\ ~Fits)

\* The file a payment is entered into is one of those that are searched
\* (fixip: choose, aclfiles).
ChosenAclIsSearched ==
  quoted > 0 /\ got > 0 => ChosenAcl(table, quoted) \in AclFiles(table)

\* Who pays the price that was asked gets the time, in a file where it is looked for.
PaymentBuysItsTime == QuotedPriceBuysTheTime /\ ChosenAclIsSearched
=============================================================================
