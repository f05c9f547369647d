----------------------------- MODULE WaterLevel ------------------------------
(***************************************************************************)
(* The simulated water level (water-level-sensor.c, and mote-3.c, which    *)
(* differs from it by an LED only): once a second the reservoir takes on   *)
(* the balance of the three flows and some noise, and the level follows    *)
(* from its contents.  Both are unsigned, so that they are computed modulo *)
(* 2^w; the balance and the noise are signed.  The button resets or fills  *)
(* the reservoir, messages on "simulation" change the flows.               *)
(***************************************************************************)
EXTENDS Integers

CONSTANTS
    FULL,               \* 100 percent
    MAX_FLOW,           \* flow per percent of each channel
    INIT_INGATE,        \* 40 percent
    MARGIN,             \* the 1000 added to the balance for the noise
    WATER_LEVEL_VAR,    \* 5: the noise of the level
    RAND_MAX,           \* the largest random number
    SURFACE, MAX_WATER_LEVEL, INIT_WATER_LEVEL, INIT_RESERVOIR,
    WORD                \* 2^w for an unsigned long of w bits

Channels == {"inflow", "outflow-1", "outflow-2"}
MAX_RESERVOIR == MAX_WATER_LEVEL * SURFACE

ASSUME FlowsAssumption ==
    /\ FULL \in Nat /\ INIT_INGATE \in 0..FULL
    /\ MAX_FLOW \in [Channels -> Nat]
ASSUME NoiseAssumption == MARGIN \in Nat /\ WATER_LEVEL_VAR \in Nat \ {0} /\ RAND_MAX \in Nat
ASSUME DamAssumption ==
    /\ SURFACE \in Nat \ {0, 1}
    /\ MAX_WATER_LEVEL \in Nat /\ INIT_WATER_LEVEL \in 0..MAX_WATER_LEVEL
    /\ INIT_RESERVOIR \in 0..MAX_RESERVOIR
    /\ WORD \in Nat
    /\ (MAX_WATER_LEVEL + WATER_LEVEL_VAR) * SURFACE < WORD

VARIABLES
    flow,           \* flow
    balance_flow,
    reservoir, water_level,
    btn_release,    \* FALSE while the button is held beyond three seconds
    halted          \* the sensor has divided by zero

vars == <<flow, balance_flow, reservoir, water_level, btn_release, halted>>
-----------------------------------------------------------------------------
Balance(f) == f["inflow"] - f["outflow-1"] - f["outflow-2"]

InitialFlow == [c \in Channels |-> IF c = "inflow" THEN INIT_INGATE * MAX_FLOW[c] ELSE 0]

Init ==
    /\ flow = InitialFlow
    /\ balance_flow = INIT_INGATE * MAX_FLOW["inflow"]
    /\ reservoir = INIT_RESERVOIR
    /\ water_level = INIT_WATER_LEVEL
    /\ btn_release = TRUE
    /\ halted = FALSE
-----------------------------------------------------------------------------
(* simulate_read_water_level.                                              *)

Unsigned(n) == n % WORD
Abs(n) == IF n < 0 THEN -n ELSE n
Lesser(m, n) == IF m < n THEN m ELSE n

\* random_rand() % (balance_flow + 1000).  With a modulus of zero the processor
\* stops, or returns the random number.
Modulus == Abs(balance_flow + MARGIN)
Draws == 0..(IF Modulus = 0 THEN RAND_MAX ELSE Lesser(RAND_MAX, Modulus - 1))

\* Even draws count down.
Var(draw) == IF draw % 2 = 0 THEN -draw ELSE draw

LevelVar(draw) == IF balance_flow > 0 THEN -draw ELSE draw

\* Seeded fault: the test for the maximum that a signed level would need.
LimitSigned(contents, level) ==
    IF level > MAX_WATER_LEVEL /\ level < WORD \div 2
    THEN water_level' = MAX_WATER_LEVEL /\ reservoir' = MAX_RESERVOIR
    ELSE water_level' = level /\ reservoir' = contents

\* Seeded fault: the level limited and the reservoir left as it is.
LimitLevelOnly(contents, level) ==
    /\ water_level' = IF level > MAX_WATER_LEVEL THEN MAX_WATER_LEVEL ELSE level
    /\ reservoir' = contents

\* An unsigned level is never less than zero, so that the test for it does
\* nothing; the test for the maximum is the only limit.
Limit(contents, level) ==
    IF level > MAX_WATER_LEVEL
    THEN water_level' = MAX_WATER_LEVEL /\ reservoir' = MAX_RESERVOIR
    ELSE water_level' = level /\ reservoir' = contents

simulate_read_water_level ==
    /\ ~halted
    /\ \E draw \in Draws, noise \in 0..(WATER_LEVEL_VAR - 1) :
           LET contents == Unsigned(reservoir + balance_flow + Var(draw))
               level == Unsigned((contents \div SURFACE) + LevelVar(noise))
           IN Limit(contents, level)
    /\ UNCHANGED <<flow, balance_flow, btn_release, halted>>

Halt ==
    /\ ~halted
    /\ Modulus = 0
    /\ halted' = TRUE
    /\ UNCHANGED <<flow, balance_flow, reservoir, water_level, btn_release>>
-----------------------------------------------------------------------------
\* Seeded fault: the balance computed anew for the inflow only.
handle_message_inflow_only ==
    /\ ~halted
    /\ \E c \in Channels, percent \in 0..FULL :
           /\ flow' = [flow EXCEPT ![c] = percent * MAX_FLOW[c]]
           /\ balance_flow' = IF c = "inflow" THEN Balance(flow') ELSE balance_flow
    /\ UNCHANGED <<reservoir, water_level, btn_release, halted>>

\* A field of the message names a channel and a percentage; other values are
\* refused.
handle_message ==
    /\ ~halted
    /\ \E c \in Channels, percent \in 0..FULL :
           /\ flow' = [flow EXCEPT ![c] = percent * MAX_FLOW[c]]
           /\ balance_flow' = Balance(flow')
    /\ UNCHANGED <<reservoir, water_level, btn_release, halted>>

\* A short push resets the reservoir, three seconds fill it; the release that
\* follows does not count.
Button ==
    /\ ~halted
    /\ \/ btn_release /\ reservoir' = INIT_RESERVOIR /\ UNCHANGED btn_release
       \/ btn_release /\ reservoir' = MAX_RESERVOIR /\ btn_release' = FALSE
       \/ ~btn_release /\ btn_release' = TRUE /\ UNCHANGED reservoir
    /\ UNCHANGED <<flow, balance_flow, water_level, halted>>

Next == simulate_read_water_level \/ Halt \/ handle_message \/ Button

Spec == Init /\ [][Next]_vars
-----------------------------------------------------------------------------
(* Properties                                                              *)

\* Every variable has its type; the level stays within the dam, whatever the
\* contents wrap around to (the last test of simulate_read_water_level).
TypeOK ==
    /\ flow \in [Channels -> Nat]
    /\ balance_flow \in Int
    /\ reservoir \in 0..WORD - 1
    /\ water_level \in 0..MAX_WATER_LEVEL
    /\ btn_release \in BOOLEAN
    /\ halted \in BOOLEAN

\* No reading leaves contents behind that have wrapped around: they exceed
\* those of a full dam by no more than the noise of the level hides (the limit
\* sets the reservoir together with the level).
ReservoirBounded == reservoir < (MAX_WATER_LEVEL + WATER_LEVEL_VAR) * SURFACE

\* More flows out than the noise can make up for.
Draining == 2 * Balance(flow) <= -MARGIN /\ Modulus # 0

\* There is water for another second of it.
Wet == reservoir + Balance(flow) >= Modulus

\* While more flows out than in and there is water left, no reading shows more
\* than the contents before it and the noise, whichever messages made up the
\* flows and whichever way the noise goes: nothing wraps around
\* (simulate_read_water_level, handle_message).
DrainsWhileWet ==
    [][Draining /\ Wet /\ reservoir' # reservoir /\ water_level' # water_level
          => water_level' < (reservoir \div SURFACE) + WATER_LEVEL_VAR]_vars
=============================================================================
