----------------------------- MODULE MCProcess -----------------------------
(* The parts of one server process that do not call one another, each run  *)
(* by itself: the two ways in which a failing provider is made to wait,    *)
(* the slots of providers, the way of requests into the process with its   *)
(* shutdown, the usage statistics, and the conversion of an answer that is *)
(* streamed.  The part is chosen at the start, and the others stay as they *)
(* were then.                                                              *)
EXTENDS Delays, ProviderLimiter, Ingress, UsageStats, StreamConversion

VARIABLE part

Parts == {"policy", "backoff", "limiter", "ingress", "usage", "stream"}
On(p) == part = p

(* The default policies, the fall-back, and small policies of every kind,  *)
(* whose caps lie below, at and above a value the formula takes.           *)
SmallPolicies ==
  {Linear(b, m) : b \in {1, 7}, m \in {0, 7, 20}}
    \cup {Exponential(b, m) : b \in {1, 3}, m \in {3, 24, 25}}

ProgramPolicies == {PolicyFor(r) : r \in DOMAIN DefaultPolicies \cup {"manual"}}
AllPolicies == ProgramPolicies \cup SmallPolicies

(* No default policy gives a cooldown that is none, or longer than an hour. *)
ASSUME DefaultsBlock ==
  \A p \in ProgramPolicies : \A n \in 1 .. 24 : CalculateCooldown(p, n) \in 1 .. 3600

(* Retry configurations of a few units; the default one has the shape      *)
(* [initial |-> 1, rate |-> 2, max |-> 30] in seconds.                     *)
SmallConfigs ==
  {c \in [initial : 0 .. 4, rate : 1 .. 3, max : {0, 1, 4, 5, 30}] :
     c.initial <= c.max}

(* Hours and days of six and twelve minutes. *)
HourOfSix == <<1, 6, 12>>
KeepLong == <<15, 30, 0>>

(* The converters there is a model of, and what they cope with.  Claude's  *)
(* goes on without end for an answer without id, loses arguments that come *)
(* whole from Codex, and a name that comes after the id; Codex's closes a  *)
(* message for good at the first call, and Gemini's repeats what is        *)
(* repeated.                                                               *)
AllRoutes ==
  {<<"openai", c>> : c \in {"claude", "codex", "gemini"}}
    \cup {<<p, "claude">> : p \in {"gemini", "codex"}}
    \cup {<<p, "openai">> : p \in {"claude", "gemini", "codex"}}

KnownToCope ==
  [anonymous |-> {"codex", "gemini"}, repeated |-> {"claude", "codex"},
   resumed |-> {"claude", "gemini"}, unnamed |-> {"codex", "gemini"},
   whole |-> {"openai"}]

ProcessInit ==
  /\ part \in Parts
  /\ PolicyInit /\ (On("policy") \/ policy = CHOOSE p \in Policies : TRUE)
  /\ BackoffInit /\ (On("backoff") \/ config = CHOOSE c \in Configs : TRUE)
  /\ LimiterInit
  /\ On("limiter") \/ \A p \in Providers : maxConcurrency[p] = 1
  /\ IngressInit
  /\ UsageInit /\ (On("usage") \/ ended = NoRows)
  /\ StreamInit /\ (On("stream") \/ route = <<"openai", "claude">>)

ProcessVars ==
  <<policyVars, backoffVars, limiterVars, ingressVars, usageVars, streamVars, part>>

ProcessNext ==
  /\ \/ /\ On("policy") /\ Failure
        /\ UNCHANGED <<backoffVars, limiterVars, ingressVars, usageVars, streamVars>>
     \/ /\ On("backoff") /\ RetryWait
        /\ UNCHANGED <<policyVars, limiterVars, ingressVars, usageVars, streamVars>>
     \/ /\ On("limiter") /\ LimiterNext
        /\ UNCHANGED <<policyVars, backoffVars, ingressVars, usageVars, streamVars>>
     \/ /\ On("ingress") /\ IngressNext
        /\ UNCHANGED <<policyVars, backoffVars, limiterVars, usageVars,
                        streamVars>>
     \/ /\ On("usage") /\ UsageNext
        /\ UNCHANGED <<policyVars, backoffVars, limiterVars, ingressVars,
                        streamVars>>
     \/ /\ On("stream") /\ StreamNext
        /\ UNCHANGED <<policyVars, backoffVars, limiterVars, ingressVars,
                        usageVars>>
  /\ UNCHANGED part

(* The fairness of Ingress and of UsageStats, each for its part. *)
ProcessFairness ==
  /\ \A r \in Requests : WF_ingressVars(On("ingress") /\ RequestStep(r))
  /\ \A s \in Shutdowns :
       /\ WF_ingressVars(On("ingress") /\ ShutdownStep(s))
       /\ WF_ingressVars(On("ingress") /\ WaitStep(s))
  /\ \A w \in Workers : WF_usageVars(On("usage") /\ Working(w))

ProcessSpec == ProcessInit /\ [][ProcessNext]_ProcessVars /\ ProcessFairness
=============================================================================
