------------------------------- MODULE Skills -------------------------------
(* The skill registry with its lifecycle, and the conversations that route an
   intent to a skill, wait for knowledge and then execute it, while an
   administrator registers, activates, disables and removes skills.

   Covered: LifecycleRegistry, SkillRouter, SkillOrchestrator, the skill API,
   the bootstrap of the registry, parameter validation.
   Not covered: what a skill writes (module Content has its selections). *)
EXTENDS Naturals, FiniteSets

CONSTANTS SkillIds,    \* skills that may be registered
          Intents,     \* intent types, without "chat" and "skill"
          IntentsOf,   \* skill -> the intent types of its definition
          Callers,     \* conversations and API calls in progress
          MaxVersion   \* bound: registrations of one skill

ASSUME SkillsAssumption == MaxVersion \in Nat \ {0}

VARIABLES definitions,     \* skill -> [status, version], or None
          implementations, \* skill -> version it was bound for, 0 if none
          call             \* caller -> [at, skill, status] of its execution

skillVars == <<definitions, implementations, call>>

None == [status |-> "none", version |-> 0]
Statuses == {"draft", "active", "deprecated", "disabled"}
ValidTransitions ==
    {<<"draft", "active">>, <<"active", "deprecated">>, <<"active", "disabled">>,
     <<"deprecated", "disabled">>, <<"disabled", "active">>}
NotCalling == [at |-> "idle", skill |-> "-", started |-> "-"]

Registered(s) == definitions[s].status # "none"
Active(s) == definitions[s].status = "active"

(* The bootstrap registers, binds and activates every built-in skill. *)
SkillsInit ==
    /\ definitions = [s \in SkillIds |-> [status |-> "active", version |-> 1]]
    /\ implementations = [s \in SkillIds |-> 1]
    /\ call = [c \in Callers |-> NotCalling]

-----------------------------------------------------------------------------
(* register: always a draft.  An implementation bound to an earlier
   registration stays bound. *)
Register(s) ==
    /\ definitions[s].version < MaxVersion
    /\ definitions' = [definitions EXCEPT
                         ![s] = [status |-> "draft", version |-> @.version + 1]]
    /\ UNCHANGED <<implementations, call>>

Deregister(s) ==
    /\ Registered(s)
    /\ definitions' = [definitions EXCEPT ![s] = [@ EXCEPT !.status = "none"]]
    /\ implementations' = [implementations EXCEPT ![s] = 0]
    /\ UNCHANGED call

UpdateStatus(s, status) ==
    /\ <<definitions[s].status, status>> \in ValidTransitions
    /\ definitions' = [definitions EXCEPT ![s].status = status]
    /\ UNCHANGED <<implementations, call>>

BindImplementation(s) ==
    /\ Registered(s)
    /\ implementations' = [implementations EXCEPT ![s] = definitions[s].version]
    /\ UNCHANGED <<definitions, call>>

-----------------------------------------------------------------------------
(* find_skill: an active skill of the intent; can_handle then gives it
   confidence 1, above the router's threshold. *)
FindSkill(intent) == {s \in SkillIds : Active(s) /\ intent \in IntentsOf[s]}

(* route: the hint first, the intent type itself next; no await in it
   suspends, so the lookup is one step.  Knowledge is resolved after it. *)
Route(c, intent) ==
    /\ call[c].at = "idle"
    /\ \E s \in FindSkill(intent) :
         call' = [call EXCEPT ![c] = [at |-> "resolving", skill |-> s, started |-> "-"]]
    /\ UNCHANGED <<definitions, implementations>>

(* POST /skills/{id}/execute: no routing, any id. *)
CallById(c, s) ==
    /\ call[c].at = "idle"
    /\ call' = [call EXCEPT ![c] = [at |-> "resolving", skill |-> s, started |-> "-"]]
    /\ UNCHANGED <<definitions, implementations>>

(* How it could go wrong: only the implementation looked for. *)
MayExecuteInactive(s) == implementations[s] # 0

(* execute looks the skill up again: unknown, not active, without an
   implementation or with invalid parameters it answers a failure; otherwise
   the implementation starts, and runs while the registry changes. *)
MayExecute(s) == Active(s) /\ implementations[s] # 0

Refuse(c) ==
    /\ call[c].at = "resolving"
    /\ call' = [call EXCEPT ![c] = NotCalling]
    /\ UNCHANGED <<definitions, implementations>>

Execute(c) ==
    /\ call[c].at = "resolving"
    /\ MayExecute(call[c].skill)
    /\ call' = [call EXCEPT ![c].at = "running",
                            ![c].started = definitions[call[c].skill].status]
    /\ UNCHANGED <<definitions, implementations>>

(* The implementation returns or raises; either is a SkillResult. *)
Finish(c) ==
    /\ call[c].at = "running"
    /\ call' = [call EXCEPT ![c] = NotCalling]
    /\ UNCHANGED <<definitions, implementations>>

SkillsNext ==
    \/ \E s \in SkillIds :
         \/ Register(s)
         \/ Deregister(s)
         \/ \E status \in Statuses : UpdateStatus(s, status)
         \/ BindImplementation(s)
    \/ \E c \in Callers :
         \/ \E i \in Intents : Route(c, i)
         \/ \E s \in SkillIds : CallById(c, s)
         \/ Refuse(c)
         \/ Execute(c)
         \/ Finish(c)

-----------------------------------------------------------------------------
SkillsTypeOK ==
    /\ definitions \in [SkillIds -> [status : Statuses \union {"none"},
                                     version : 0..MaxVersion]]
    /\ implementations \in [SkillIds -> 0..MaxVersion]
    /\ \A c \in Callers : call[c].at \in {"idle", "resolving", "running"}

(* Whatever happens between routing and execution, a skill starts only while
   it is active, and never before it was activated after its registration;
   an implementation is bound to no skill that was removed. *)
ActiveSkillsRun ==
    /\ \A c \in Callers : call[c].at = "running" => call[c].started = "active"
    /\ \A s \in SkillIds : ~Registered(s) => implementations[s] = 0
    /\ \A s \in SkillIds : implementations[s] <= definitions[s].version
=============================================================================
