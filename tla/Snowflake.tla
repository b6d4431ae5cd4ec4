------------------------------ MODULE Snowflake ------------------------------
(***************************************************************************)
(* CSnowflakeID: ids made of a time in milliseconds, a machine id and an   *)
(* index that goes round from 0 to Seqs - 1 and is not reset when the time *)
(* changes.  Several generators, in one process or in several, read one    *)
(* clock, which may be set back.                                           *)
(*                                                                         *)
(* Generate puts the three parts into disjoint fields of bits, so what it  *)
(* combines with | is a sum here.  The time fits into its field until the  *)
(* year 2109.                                                              *)
(***************************************************************************)
EXTENDS Integers

CONSTANTS
  Seqs,      \* 0x1000, values of the index
  Machines,  \* 0x400, values of the machine id
  Gens,      \* the generators
  machine    \* generator -> m_iMachineID & 0x3FF

VARIABLES
  m_iIndex,  \* generator -> index of its next id
  laps,      \* generator -> how often its index has gone round
  calls      \* every call of Generate: generator, time, number and result

vars == <<m_iIndex, laps, calls>>

Assumptions ==
  /\ Seqs \in Nat \ {0}
  /\ Machines \in Nat \ {0}
  /\ machine \in [Gens -> 0..Machines - 1]

Init ==
  /\ m_iIndex = [g \in Gens |-> 0]
  /\ laps = [g \in Gens |-> 0]
  /\ calls = {}

Id(time, mach, index) == (time * Machines + mach) * Seqs + index

\* The time is whatever the clock says.
Generate(g, time) ==
  /\ calls' = calls \cup
       {[gen |-> g, time |-> time, index |-> m_iIndex[g], lap |-> laps[g],
         id |-> Id(time, machine[g], m_iIndex[g])]}
  /\ IF m_iIndex[g] + 1 = Seqs
     THEN /\ m_iIndex' = [m_iIndex EXCEPT ![g] = 0]
          /\ laps' = [laps EXCEPT ![g] = @ + 1]
     ELSE /\ m_iIndex' = [m_iIndex EXCEPT ![g] = @ + 1]
          /\ UNCHANGED laps

Next == \E g \in Gens, time \in Nat : Generate(g, time)

Spec == Init /\ [][Next]_vars

\* How many ids the generator of the call had made before it.
Number(c) == c.lap * Seqs + c.index

(***************************************************************************)
(* Two calls return the same id only when the clock showed them the same   *)
(* millisecond and, if they were calls of different generators, these have *)
(* the same machine id; if they were calls of one generator, when at least *)
(* Seqs - 1 others lie between them.                                       *)
(***************************************************************************)
RepeatsFarApart ==
  \A c, d \in calls :
    c # d /\ c.id = d.id =>
      /\ c.time = d.time
      /\ machine[c.gen] = machine[d.gen]
      /\ c.gen = d.gen => Number(d) - Number(c) >= Seqs \/ Number(c) - Number(d) >= Seqs
==============================================================================
