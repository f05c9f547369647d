-------------------------- MODULE WaterLevelProofs ---------------------------
(***************************************************************************)
(* Theorems about WaterLevel, for every size of the dam, of the flows and  *)
(* of the machine word.                                                    *)
(***************************************************************************)
EXTENDS WaterLevel, TLAPS

\* The contents of a full dam and what the noise of the level hides.
Brim == (MAX_WATER_LEVEL + WATER_LEVEL_VAR) * SURFACE

\* What a reading starts from: the balance is that of the flows.
LevelInv ==
    /\ TypeOK
    /\ ReservoirBounded
    /\ balance_flow = Balance(flow)

-----------------------------------------------------------------------------
(* Arithmetic.                                                             *)

LEMMA Remainder == ASSUME NEW n \in Int, NEW w \in Nat, w > 0 PROVE n % w \in 0..w - 1
  OBVIOUS

LEMMA SmallRemainder == ASSUME NEW w \in Nat, NEW n \in 0..w - 1 PROVE n % w = n
  OBVIOUS

LEMMA Quotient ==
    ASSUME NEW a \in Nat, NEW d \in Nat \ {0}
    PROVE  /\ a \div d \in Nat
           /\ (a \div d) * d <= a
           /\ a < (a \div d) * d + d
  OBVIOUS

LEMMA TimesMonotone ==
    ASSUME NEW a \in Nat, NEW b \in Nat, NEW d \in Nat \ {0}, a * d + d > b * d
    PROVE  a >= b
  OBVIOUS

\* The quotient is monotone.
LEMMA QuotientMonotone ==
    ASSUME NEW a \in Nat, NEW b \in Nat, NEW d \in Nat \ {0}, a >= b
    PROVE  a \div d >= b \div d
  <1> DEFINE p == a \div d
             q == b \div d
  <1>1. p \in Nat /\ a < p * d + d /\ q \in Nat /\ q * d <= b
    BY Quotient
  <1> HIDE DEF p, q
  <1>2. p * d \in Nat /\ q * d \in Nat
    BY <1>1
  <1>3. p * d + d > q * d
    BY <1>1, <1>2
  <1>4. p >= q
    BY <1>1, <1>3, TimesMonotone
  <1> QED BY <1>4 DEF p, q

\* Contents beyond the brim make a quotient beyond the maximum and its noise.
LEMMA BeyondTheBrim ==
    ASSUME NEW a \in Nat, a >= Brim
    PROVE  a \div SURFACE >= MAX_WATER_LEVEL + WATER_LEVEL_VAR
  <1> DEFINE p == a \div SURFACE
             full == MAX_WATER_LEVEL + WATER_LEVEL_VAR
  <1>0. SURFACE \in Nat \ {0} /\ full \in Nat
    BY DamAssumption, NoiseAssumption
  <1>1. p \in Nat /\ a < p * SURFACE + SURFACE
    BY <1>0, Quotient
  <1> HIDE DEF p
  <1>2. p * SURFACE \in Nat /\ full * SURFACE \in Nat /\ a >= full * SURFACE
    BY <1>0, <1>1 DEF Brim
  <1> HIDE DEF full
  <1>3. p * SURFACE + SURFACE > full * SURFACE
    BY <1>0, <1>1, <1>2
  <1>4. p >= full
    BY <1>0, <1>1, <1>3, TimesMonotone
  <1> QED BY <1>4 DEF p, full

\* The brim fits into a word, and so does any level there can be.
LEMMA Sizes ==
    /\ WORD \in Nat /\ WORD > 0
    /\ SURFACE \in Nat \ {0}
    /\ Brim \in Nat /\ Brim < WORD
    /\ MAX_RESERVOIR \in Nat /\ MAX_RESERVOIR < Brim
    /\ \A a \in 0..WORD - 1, v \in 0..WATER_LEVEL_VAR - 1 : (a \div SURFACE) + v \in 0..WORD - 1
  <1>1. WORD \in Nat /\ SURFACE \in Nat \ {0, 1} /\ MAX_WATER_LEVEL \in Nat /\ WATER_LEVEL_VAR \in Nat \ {0}
    BY DamAssumption, NoiseAssumption
  <1>2. Brim \in Nat /\ Brim < WORD /\ WORD > 0
    BY <1>1, DamAssumption DEF Brim
  <1>3. Brim = MAX_RESERVOIR + WATER_LEVEL_VAR * SURFACE /\ MAX_RESERVOIR \in Nat
    BY <1>1 DEF Brim, MAX_RESERVOIR
  <1>4. WATER_LEVEL_VAR * SURFACE >= 2 * WATER_LEVEL_VAR /\ WATER_LEVEL_VAR * SURFACE \in Nat
    BY <1>1
  <1>5. 2 * WATER_LEVEL_VAR < WORD
    BY <1>1, <1>2, <1>3, <1>4
  <1>6. ASSUME NEW a \in 0..WORD - 1, NEW v \in 0..WATER_LEVEL_VAR - 1
        PROVE  (a \div SURFACE) + v \in 0..WORD - 1
    <2> DEFINE p == a \div SURFACE
    <2>1. p \in Nat /\ p * SURFACE <= a
      BY <1>1, Quotient
    <2> HIDE DEF p
    <2>2. p * SURFACE >= 2 * p
      BY <1>1, <2>1
    <2>3. p * SURFACE \in Nat
      BY <1>1, <2>1
    <2>4. 2 * p <= WORD - 1
      BY <1>1, <2>1, <2>2, <2>3
    <2>5. p + v \in 0..WORD - 1
      BY <1>1, <1>5, <2>1, <2>4
    <2> QED BY <2>5 DEF p
  <1> QED BY <1>1, <1>2, <1>3, <1>4, <1>6
-----------------------------------------------------------------------------
(* The invariant.                                                          *)

\* What the random numbers make of the flows.
LEMMA Noise ==
    ASSUME balance_flow \in Int, NEW draw \in Draws
    PROVE  /\ Modulus \in Nat
           /\ draw \in Nat
           /\ Modulus # 0 => draw <= Modulus - 1
           /\ Var(draw) \in {draw, -draw}
  <1>1. Modulus \in Nat
    BY NoiseAssumption DEF Modulus, Abs
  <1>2. draw \in Nat /\ (Modulus # 0 => draw <= Modulus - 1)
    BY <1>1, NoiseAssumption DEF Draws, Lesser
  <1>3. Var(draw) \in {draw, -draw}
    BY DEF Var
  <1> QED BY <1>1, <1>2, <1>3

\* What a reading leaves behind.
LEMMA Reading ==
    ASSUME NEW contents \in 0..WORD - 1, NEW noise \in 0..WATER_LEVEL_VAR - 1,
           balance_flow \in Int,
           Limit(contents, Unsigned((contents \div SURFACE) + LevelVar(noise)))
    PROVE  /\ water_level' \in 0..MAX_WATER_LEVEL
           /\ reservoir' \in 0..WORD - 1
           /\ reservoir' < Brim
           /\ ~(balance_flow > 0) => water_level' <= (contents \div SURFACE) + noise
  <1> DEFINE q == contents \div SURFACE
             level == Unsigned(q + LevelVar(noise))
  <1>1. WORD \in Nat /\ WORD > 0 /\ MAX_WATER_LEVEL \in Nat /\ WATER_LEVEL_VAR \in Nat \ {0}
        /\ Brim \in Nat /\ Brim < WORD /\ MAX_RESERVOIR \in Nat /\ MAX_RESERVOIR < Brim
    BY Sizes, DamAssumption, NoiseAssumption
  <1>0. contents \in Nat /\ SURFACE \in Nat \ {0}
    BY <1>1, Sizes
  <1>2. q \in Nat
    BY <1>0, Quotient
  <1>3. q + noise \in 0..WORD - 1
    BY Sizes
  <1>4. contents >= Brim => q >= MAX_WATER_LEVEL + WATER_LEVEL_VAR
    BY <1>1, BeyondTheBrim
  <1> HIDE DEF q
  <1>5. LevelVar(noise) = IF balance_flow > 0 THEN -noise ELSE noise
    BY DEF LevelVar
  <1>6. level \in 0..WORD - 1
    BY <1>1, <1>2, <1>5, Remainder DEF Unsigned
  <1>7. q + LevelVar(noise) \in 0..WORD - 1 => level = q + LevelVar(noise)
    BY <1>1, SmallRemainder DEF Unsigned
  <1>8. contents >= Brim => level > MAX_WATER_LEVEL
    <2> SUFFICES ASSUME contents >= Brim PROVE level > MAX_WATER_LEVEL
      OBVIOUS
    <2>1. q + LevelVar(noise) \in 0..WORD - 1 /\ q + LevelVar(noise) > MAX_WATER_LEVEL
      BY <1>1, <1>2, <1>3, <1>4, <1>5
    <2> HIDE DEF level
    <2> QED BY <1>7, <2>1
  <1>9. ~(balance_flow > 0) => level = q + noise
    BY <1>3, <1>5, <1>7
  <1>10. IF level > MAX_WATER_LEVEL
         THEN water_level' = MAX_WATER_LEVEL /\ reservoir' = MAX_RESERVOIR
         ELSE water_level' = level /\ reservoir' = contents
    BY DEF Limit, q
  <1> HIDE DEF level
  <1>11. CASE level > MAX_WATER_LEVEL
    BY <1>1, <1>2, <1>9, <1>10, <1>11 DEF q
  <1>12. CASE ~(level > MAX_WATER_LEVEL)
    <2>1. contents < Brim
      BY <1>1, <1>8, <1>12
    <2> QED BY <1>1, <1>2, <1>6, <1>9, <1>10, <1>12, <2>1 DEF q
  <1> QED BY <1>11, <1>12

LEMMA LevelInit == Init => LevelInv
  <1> SUFFICES ASSUME Init PROVE LevelInv
    OBVIOUS
  <1>1. flow \in [Channels -> Nat] /\ balance_flow \in Int /\ balance_flow = Balance(flow)
    BY FlowsAssumption DEF Init, InitialFlow, Channels, Balance
  <1>2. reservoir \in 0..WORD - 1 /\ reservoir < Brim
    BY Sizes, DamAssumption DEF Init
  <1>3. water_level \in 0..MAX_WATER_LEVEL
    BY DamAssumption DEF Init
  <1> QED BY <1>1, <1>2, <1>3 DEF Init, LevelInv, TypeOK, ReservoirBounded, Brim

LEMMA LevelStep == LevelInv /\ [Next]_vars => LevelInv'
  <1> SUFFICES ASSUME LevelInv, [Next]_vars PROVE LevelInv'
    OBVIOUS
  <1>1. CASE simulate_read_water_level
    <2>1. PICK draw \in Draws, noise \in 0..WATER_LEVEL_VAR - 1 :
              LET contents == Unsigned(reservoir + balance_flow + Var(draw))
                  level == Unsigned((contents \div SURFACE) + LevelVar(noise))
              IN Limit(contents, level)
      BY <1>1 DEF simulate_read_water_level
    <2> DEFINE contents == Unsigned(reservoir + balance_flow + Var(draw))
    <2>2. contents \in 0..WORD - 1
      <3>1. reservoir \in Int /\ balance_flow \in Int
        BY Sizes DEF LevelInv, TypeOK
      <3>2. reservoir + balance_flow + Var(draw) \in Int
        BY <3>1, Noise
      <3> QED BY <3>2, Sizes, Remainder DEF Unsigned
    <2>3. Limit(contents, Unsigned((contents \div SURFACE) + LevelVar(noise)))
      BY <2>1
    <2> HIDE DEF contents
    <2>4. water_level' \in 0..MAX_WATER_LEVEL /\ reservoir' \in 0..WORD - 1 /\ reservoir' < Brim
      BY <2>2, <2>3, Reading DEF LevelInv, TypeOK
    <2> QED BY <1>1, <2>4 DEF simulate_read_water_level, LevelInv, TypeOK, ReservoirBounded, Brim, Balance
  <1>2. CASE handle_message
    <2>1. PICK c \in Channels, percent \in 0..FULL :
              /\ flow' = [flow EXCEPT ![c] = percent * MAX_FLOW[c]]
              /\ balance_flow' = Balance(flow')
      BY <1>2 DEF handle_message
    <2>2. percent * MAX_FLOW[c] \in Nat
      BY FlowsAssumption
    <2>3. flow' \in [Channels -> Nat]
      BY <2>1, <2>2 DEF LevelInv, TypeOK
    <2>4. balance_flow' \in Int
      BY <2>1, <2>3 DEF Balance, Channels
    <2> QED BY <1>2, <2>1, <2>3, <2>4 DEF handle_message, LevelInv, TypeOK, ReservoirBounded, Balance
  <1>3. CASE Button
    <2>1. reservoir' \in 0..WORD - 1 /\ reservoir' < Brim
      BY <1>3, Sizes, DamAssumption DEF Button, LevelInv, TypeOK, ReservoirBounded, Brim
    <2> QED BY <1>3, <2>1 DEF Button, LevelInv, TypeOK, ReservoirBounded, Brim, Balance
  <1>4. CASE Halt \/ UNCHANGED vars
    BY <1>4 DEF Halt, vars, LevelInv, TypeOK, ReservoirBounded, Balance
  <1> QED BY <1>1, <1>2, <1>3, <1>4 DEF Next

\* Whatever the contents wrap around to, the level stays within the dam.
THEOREM TypeCorrect == Spec => []TypeOK
  <1>1. LevelInv => TypeOK
    BY DEF LevelInv
  <1> QED BY <1>1, LevelInit, LevelStep, PTL DEF Spec

\* No contents are left that have wrapped around.
THEOREM Bounded == Spec => []ReservoirBounded
  <1>1. LevelInv => ReservoirBounded
    BY DEF LevelInv
  <1> QED BY <1>1, LevelInit, LevelStep, PTL DEF Spec
-----------------------------------------------------------------------------
(* Draining.                                                               *)

Drains ==
    Draining /\ Wet /\ reservoir' # reservoir /\ water_level' # water_level
        => water_level' < (reservoir \div SURFACE) + WATER_LEVEL_VAR

LEMMA DrainStep == LevelInv /\ [Next]_vars => Drains
  <1> SUFFICES ASSUME LevelInv, [Next]_vars, Draining, Wet,
                      reservoir' # reservoir, water_level' # water_level
               PROVE  water_level' < (reservoir \div SURFACE) + WATER_LEVEL_VAR
    BY DEF Drains
  <1>1. simulate_read_water_level
    BY DEF Next, Halt, handle_message, Button, vars
  <1>2. PICK draw \in Draws, noise \in 0..WATER_LEVEL_VAR - 1 :
            LET contents == Unsigned(reservoir + balance_flow + Var(draw))
                level == Unsigned((contents \div SURFACE) + LevelVar(noise))
            IN Limit(contents, level)
    BY <1>1 DEF simulate_read_water_level
  <1> DEFINE sum == reservoir + balance_flow + Var(draw)
             contents == Unsigned(sum)
  <1>3. reservoir \in 0..WORD - 1 /\ balance_flow \in Int /\ WATER_LEVEL_VAR \in Nat /\ MARGIN \in Nat
        /\ WORD \in Nat
    BY Sizes, NoiseAssumption DEF LevelInv, TypeOK
  <1>4. 2 * balance_flow <= -MARGIN /\ Modulus # 0 /\ reservoir + balance_flow >= Modulus
    BY DEF Draining, Wet, LevelInv
  <1>5. Modulus \in Nat /\ draw \in Nat /\ draw <= Modulus - 1 /\ Var(draw) \in {draw, -draw}
    BY <1>3, <1>4, Noise
  <1>6. Modulus <= -balance_flow
    BY <1>3, <1>4 DEF Modulus, Abs
  <1>7. sum \in 0..WORD - 1 /\ sum <= reservoir
    BY <1>3, <1>4, <1>5, <1>6
  <1>8. contents = sum
    BY <1>3, <1>7, SmallRemainder DEF Unsigned
  <1>9. Limit(contents, Unsigned((contents \div SURFACE) + LevelVar(noise)))
    BY <1>2
  <1> HIDE DEF sum, contents
  <1>10. contents \in 0..WORD - 1
    BY <1>7, <1>8
  <1>11. ~(balance_flow > 0)
    BY <1>3, <1>4
  <1>12. water_level' <= (contents \div SURFACE) + noise /\ water_level' \in 0..MAX_WATER_LEVEL
    BY <1>3, <1>9, <1>10, <1>11, Reading
  <1>13. contents \div SURFACE <= reservoir \div SURFACE
    BY <1>3, <1>7, <1>8, <1>10, QuotientMonotone, Sizes
  <1>17. contents \in Nat /\ reservoir \in Nat /\ SURFACE \in Nat \ {0}
    BY <1>3, <1>10, Sizes
  <1>14. contents \div SURFACE \in Nat /\ reservoir \div SURFACE \in Nat
    BY <1>17, Quotient
  <1> DEFINE p == contents \div SURFACE
             q == reservoir \div SURFACE
  <1>15. water_level' <= p + noise /\ p <= q /\ p \in Nat /\ q \in Nat
    BY <1>12, <1>13, <1>14
  <1> HIDE DEF p, q
  <1>16. water_level' < q + WATER_LEVEL_VAR
    BY <1>3, <1>12, <1>15, DamAssumption
  <1> QED BY <1>16 DEF q

\* As long as there is water the noise cannot make a dam that drains seem to fill.
THEOREM DrainsDown == Spec => DrainsWhileWet
  <1>1. LevelInv /\ [Next]_vars => [Drains]_vars
    BY DrainStep
  <1> QED BY <1>1, LevelInit, LevelStep, PTL DEF Spec, DrainsWhileWet, Drains
=============================================================================
