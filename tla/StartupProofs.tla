--------------------------- MODULE StartupProofs ----------------------------
(***************************************************************************)
(* What start-up establishes, for every set of numbers a setting may have: *)
(* each phase of build remembers what the phases before it have found,     *)
(* although the policy files may change between any two of them.  The only *)
(* hypothesis is that numeric settings are integers.                       *)
(***************************************************************************)
EXTENDS Startup, TLAPS

\* The phases after validate_runtime has found nothing wrong.
Validated == {"scopePolicy", "toolPolicy", "verifier", "serving"}

\* What validate_runtime looks at and nothing changes later: all but the files.
SoundSettings ==
    /\ ~BadAlgorithms(settings)
    /\ settings.requireAuth =>
          settings.jwks = "https" \/ (settings.jwks = "loopback" /\ settings.allowInsecure)
    /\ settings.maxResponse >= 0 /\ settings.maxList > 0 /\ settings.least >= 0
    /\ ~LimitsCross(settings)

\* What each part of built is once its phase is over.
BuiltInOrder ==
    /\ phase \in {"toolPolicy", "verifier", "serving"} =>
          (built.scope = "file" <=> settings.scopeFile)
    /\ phase \in {"verifier", "serving"} => (built.tool = "file" <=> settings.toolFile)
    /\ phase = "serving" => (built.verifier <=> settings.requireAuth)

Typed ==
    /\ settings \in Settings
    /\ built \in [scope : {"none", "builtin", "file"}, tool : {"none", "file"}, verifier : BOOLEAN]

\* The inductive invariant.
StartupInv ==
    /\ Typed
    /\ phase \in Validated => SoundSettings
    /\ BuiltInOrder
    /\ cause # "verifier"

LEMMA InitEstablishes == Init => StartupInv
BY DEF Init, StartupInv, Typed, BuiltInOrder, NothingBuilt, Validated

\* No problem means every condition of validate_runtime is false.
LEMMA NoProblemIsSound ==
    ASSUME Numbers \subseteq Int, settings \in Settings, Problems(settings, files) = {}
    PROVE  SoundSettings
<1>1. \A p \in DOMAIN Violated(settings, files) : ~Violated(settings, files)[p]
  BY DEF Problems
<1>2. /\ ~BadAlgorithms(settings) /\ ~LimitsCross(settings)
      /\ ~(settings.requireAuth /\ settings.jwks = "none")
      /\ ~(settings.requireAuth /\ settings.jwks \in {"loopback", "remote"}
             /\ ~settings.allowInsecure)
      /\ ~(settings.requireAuth /\ settings.jwks = "remote" /\ settings.allowInsecure)
      /\ ~(settings.least < 0 \/ settings.shortest <= 0
             \/ settings.maxResponse < 0 \/ settings.maxList <= 0)
  BY <1>1 DEF Violated
<1>3. /\ settings.jwks \in {"none", "https", "loopback", "remote"}
      /\ settings.maxResponse \in Int /\ settings.maxList \in Int /\ settings.least \in Int
  BY DEF Settings
<1> QED
  BY <1>2, <1>3 DEF SoundSettings

LEMMA StepPreserves ==
    ASSUME Numbers \subseteq Int, StartupInv, [Next]_vars
    PROVE  StartupInv'
<1> USE DEF StartupInv, Typed, BuiltInOrder, Validated, Crash, Continue
<1>1. CASE Load
  BY <1>1 DEF Load
<1>2. CASE Validate
  <2>1. phase' \in Validated => Problems(settings, files) = {}
    BY <1>2 DEF Validate
  <2>2. phase' \in Validated => SoundSettings
    BY <2>1, NoProblemIsSound
  <2>3. UNCHANGED <<settings, built, cause>> /\ phase' \in {"scopePolicy", "refused"}
    BY <1>2 DEF Validate
  <2> QED
    BY <2>2, <2>3 DEF SoundSettings, BadAlgorithms, LimitsCross
<1>3. CASE ReadScopePolicy
  <2>1. SoundSettings' <=> SoundSettings
    BY <1>3 DEF ReadScopePolicy, SoundSettings, BadAlgorithms, LimitsCross
  <2> QED
    BY <1>3, <2>1 DEF ReadScopePolicy, Settings
<1>4. CASE ReadToolPolicy
  <2>1. SoundSettings' <=> SoundSettings
    BY <1>4 DEF ReadToolPolicy, SoundSettings, BadAlgorithms, LimitsCross
  <2> QED
    BY <1>4, <2>1 DEF ReadToolPolicy, Settings
<1>5. CASE BuildVerifier
  <2>1. SoundSettings' <=> SoundSettings
    BY <1>5 DEF BuildVerifier, SoundSettings, BadAlgorithms, LimitsCross
  <2>2. ~Unverifiable(settings.algorithms)
    BY <1>5 DEF BuildVerifier, SoundSettings, BadAlgorithms, Unverifiable
  <2> QED
    BY <1>5, <2>1, <2>2 DEF BuildVerifier, Settings
<1>6. CASE FileChanges
  BY <1>6 DEF FileChanges, SoundSettings, BadAlgorithms, LimitsCross
<1>7. CASE UNCHANGED vars
  BY <1>7 DEF vars, SoundSettings, BadAlgorithms, LimitsCross
<1> QED
  BY <1>1, <1>2, <1>3, <1>4, <1>5, <1>6, <1>7 DEF Next

LEMMA StartupInvariant ==
    ASSUME Numbers \subseteq Int
    PROVE  Spec => []StartupInv
<1> QED
  BY InitEstablishes, StepPreserves, PTL DEF Spec

\* A gateway that serves enforces what its settings ask for (__main__.py:47-79).
THEOREM NoSilentWeakeningHolds ==
    ASSUME Numbers \subseteq Int
    PROVE  Spec => []NoSilentWeakening
<1>1. StartupInv => NoSilentWeakening
  BY DEF StartupInv, NoSilentWeakening, BuiltInOrder, Validated, SoundSettings,
         BadAlgorithms, Unverifiable
<1> QED
  BY <1>1, StartupInvariant, PTL

\* Its limits and intervals are the ones the other modules assume
\* (config.py:187-222).
THEOREM ServesWithinAssumptionsHolds ==
    ASSUME Numbers \subseteq Int
    PROVE  Spec => []ServesWithinAssumptions
<1>1. StartupInv => ServesWithinAssumptions
  <2> SUFFICES ASSUME StartupInv, phase = "serving" PROVE ServesWithinAssumptions
    BY DEF ServesWithinAssumptions
  <2>1. settings.maxResponse \in Int /\ settings.maxList \in Int
    BY DEF StartupInv, Typed, Settings
  <2> QED
    BY <2>1 DEF StartupInv, Validated, SoundSettings, LimitsCross, ServesWithinAssumptions
<1> QED
  BY <1>1, StartupInvariant, PTL

\* What the constructor of the verifier would refuse never reaches it
\* (config.py:133-145, verifier.py:142-147).
THEOREM NoConstructorTracebackHolds ==
    ASSUME Numbers \subseteq Int
    PROVE  Spec => []NoConstructorTraceback
<1>1. StartupInv => NoConstructorTraceback
  BY DEF StartupInv, NoConstructorTraceback
<1> QED
  BY <1>1, StartupInvariant, PTL

=============================================================================
