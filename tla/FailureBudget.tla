---------------------------- MODULE FailureBudget ----------------------------
(***************************************************************************)
(* What the failures of a consumer may cost.  How often something has been *)
(* done, together with the activations that are able to do it once more,   *)
(* stays within one more than the failures: a step that does it uses up an *)
(* able activation, and only a failure enables another one.                *)
(***************************************************************************)
EXTENDS Naturals, FiniteSetTheorems, TLAPS

WithinBudget(done, able, failures) ==
    /\ IsFiniteSet(able)
    /\ done + Cardinality(able) <= 1 + failures

\* An activation that is able is within the budget that failures have made.
LEMMA AbleIsBudgeted ==
    ASSUME NEW done \in Nat, NEW able, NEW failures \in Nat,
           WithinBudget(done, able, failures), able # {}
    PROVE  done <= failures
<1>1. Cardinality(able) \in Nat /\ Cardinality(able) # 0
  BY FS_CardinalityType, FS_EmptySet DEF WithinBudget
<1> QED
  BY <1>1 DEF WithinBudget

LEMMA BudgetBounds ==
    ASSUME NEW done \in Nat, NEW able, NEW failures \in Nat,
           WithinBudget(done, able, failures)
    PROVE  done <= 1 + failures
<1>1. Cardinality(able) \in Nat
  BY FS_CardinalityType DEF WithinBudget
<1> QED
  BY <1>1 DEF WithinBudget

\* A step that does it not and enables nobody.
LEMMA BudgetKept ==
    ASSUME NEW done \in Nat, NEW able, NEW failures \in Nat,
           WithinBudget(done, able, failures),
           NEW able1 \in SUBSET able
    PROVE  WithinBudget(done, able1, failures)
<1>1. /\ IsFiniteSet(able1)
      /\ Cardinality(able1) <= Cardinality(able)
  BY FS_Subset DEF WithinBudget
<1>2. Cardinality(able) \in Nat /\ Cardinality(able1) \in Nat
  BY <1>1, FS_CardinalityType DEF WithinBudget
<1> QED
  BY <1>1, <1>2 DEF WithinBudget

\* A step that does it.
LEMMA BudgetSpent ==
    ASSUME NEW done \in Nat, NEW able, NEW failures \in Nat,
           WithinBudget(done, able, failures),
           NEW h \in able, NEW able1 \in SUBSET (able \ {h})
    PROVE  WithinBudget(done + 1, able1, failures)
<1>1. /\ IsFiniteSet(able \ {h})
      /\ Cardinality(able \ {h}) = Cardinality(able) - 1
  BY FS_RemoveElement DEF WithinBudget
<1>2. Cardinality(able) \in Nat
  BY FS_CardinalityType DEF WithinBudget
<1>3. done + 1 + Cardinality(able \ {h}) <= 1 + failures
  BY <1>1, <1>2 DEF WithinBudget
<1>4. Cardinality(able \ {h}) \in Nat
  BY <1>1, FS_CardinalityType
<1> QED
  BY <1>1, <1>3, <1>4, BudgetKept DEF WithinBudget

\* A failure.
LEMMA BudgetRaised ==
    ASSUME NEW done \in Nat, NEW able, NEW failures \in Nat,
           WithinBudget(done, able, failures),
           NEW h, NEW able1 \in SUBSET (able \cup {h})
    PROVE  WithinBudget(done, able1, failures + 1)
<1>1. /\ IsFiniteSet(able \cup {h})
      /\ Cardinality(able \cup {h}) \in {Cardinality(able), Cardinality(able) + 1}
  BY FS_AddElement DEF WithinBudget
<1>2. Cardinality(able) \in Nat
  BY FS_CardinalityType DEF WithinBudget
<1>3. done + Cardinality(able \cup {h}) <= 1 + (failures + 1)
  BY <1>1, <1>2 DEF WithinBudget
<1> QED
  BY <1>1, <1>3, BudgetKept DEF WithinBudget

-----------------------------------------------------------------------------
(* Sizes of finite sets, as bounds.                                        *)

LEMMA PartCounts ==
    ASSUME NEW S, NEW T \in SUBSET S, IsFiniteSet(S)
    PROVE  /\ IsFiniteSet(T)
           /\ Cardinality(S) \in Nat /\ Cardinality(T) \in Nat
           /\ Cardinality(T) <= Cardinality(S)
BY FS_Subset, FS_CardinalityType

LEMMA OneMoreCounts ==
    ASSUME NEW S, NEW x, NEW T \in SUBSET (S \cup {x}), IsFiniteSet(S)
    PROVE  /\ IsFiniteSet(T)
           /\ Cardinality(S) \in Nat /\ Cardinality(T) \in Nat
           /\ Cardinality(T) <= Cardinality(S) + 1
<1>1. /\ IsFiniteSet(S \cup {x})
      /\ Cardinality(S \cup {x}) \in {Cardinality(S), Cardinality(S) + 1}
  BY FS_AddElement
<1>2. /\ IsFiniteSet(T)
      /\ Cardinality(S \cup {x}) \in Nat /\ Cardinality(T) \in Nat
      /\ Cardinality(T) <= Cardinality(S \cup {x})
  BY <1>1, PartCounts
<1>3. Cardinality(S) \in Nat
  BY FS_CardinalityType
<1> QED
  BY <1>1, <1>2, <1>3

LEMMA UnionCounts ==
    ASSUME NEW S, NEW U, NEW T \in SUBSET (S \cup U), IsFiniteSet(S), IsFiniteSet(U)
    PROVE  /\ IsFiniteSet(T)
           /\ Cardinality(T) \in Nat
           /\ Cardinality(T) <= Cardinality(S) + Cardinality(U)
<1>1. /\ IsFiniteSet(S \cup U)
      /\ Cardinality(S \cup U) = Cardinality(S) + Cardinality(U) - Cardinality(S \cap U)
  BY FS_Union
<1>2. Cardinality(S) \in Nat /\ Cardinality(U) \in Nat /\ Cardinality(S \cap U) \in Nat
  BY PartCounts, FS_CardinalityType
<1>3. /\ IsFiniteSet(T) /\ Cardinality(T) \in Nat
      /\ Cardinality(T) <= Cardinality(S \cup U)
  BY <1>1, PartCounts
<1>4. Cardinality(S \cup U) <= Cardinality(S) + Cardinality(U)
  BY <1>1, <1>2
<1>5. Cardinality(S \cup U) \in Nat
  BY <1>1, FS_CardinalityType
<1> QED
  BY <1>2, <1>3, <1>4, <1>5

LEMMA ImageCounts ==
    ASSUME NEW S, NEW U, NEW f \in [S -> U], IsFiniteSet(S),
           \A u \in U : \E s \in S : f[s] = u
    PROVE  /\ IsFiniteSet(U)
           /\ Cardinality(U) \in Nat
           /\ Cardinality(U) <= Cardinality(S)
<1>1. f \in Surjection(S, U)
  BY DEF Surjection
<1> QED
  BY <1>1, FS_Surjection, FS_CardinalityType

-----------------------------------------------------------------------------

\* A step that hands the ability on.
LEMMA BudgetMoved ==
    ASSUME NEW done \in Nat, NEW able, NEW failures \in Nat,
           WithinBudget(done, able, failures),
           NEW h \in able, NEW g, NEW able1 \in SUBSET ((able \ {h}) \cup {g})
    PROVE  WithinBudget(done, able1, failures)
<1>1. /\ IsFiniteSet(able \ {h})
      /\ Cardinality(able \ {h}) = Cardinality(able) - 1
  BY FS_RemoveElement DEF WithinBudget
<1>2. /\ IsFiniteSet(able1) /\ Cardinality(able1) \in Nat
      /\ Cardinality(able1) <= Cardinality(able \ {h}) + 1
  BY <1>1, OneMoreCounts
<1>3. Cardinality(able) \in Nat
  BY FS_CardinalityType DEF WithinBudget
<1> QED
  BY <1>1, <1>2, <1>3 DEF WithinBudget

=============================================================================
