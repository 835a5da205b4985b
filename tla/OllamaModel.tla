---------------------------- MODULE OllamaModel ----------------------------
(***************************************************************************)
(* Calls of the local language model (call_ollama and the helpers it uses  *)
(* in api/local_ai_routes_simple.py): the optional response cache in       *)
(* Redis, the check that the model is installed, the pull under            *)
(* _ollama_pull_lock, the request to generate with its one repetition when *)
(* the service says the model is missing.                                  *)
(*                                                                         *)
(* The service is external: it answers, fails or runs into a timeout, and  *)
(* an operator may remove the model at any moment.  Several replicas of    *)
(* the application share it, each with a lock of its own.                  *)
(***************************************************************************)
EXTENDS Naturals, Sequences, FiniteSets

LOCAL INSTANCE SequencesExt

CONSTANTS
    Askers,             \* concurrent calls of call_ollama
    OllamaReplicas,     \* processes of the application that share the service
    Prompts,            \* prompts the calls may carry, as sequences of characters
    Systems,            \* system prompts, likewise
    TokenLimits,        \* values of max_tokens, in decimal
    AutoPull,           \* OLLAMA_AUTO_PULL
    MaxRemovals,        \* bound on removals of the model
    NoAsker             \* holder of a free lock; replica of a call not made

ASSUME OllamaAssumption ==
    /\ IsFiniteSet(Askers)
    /\ AutoPull \in BOOLEAN
    /\ MaxRemovals \in Nat
    /\ NoAsker \notin Askers \cup OllamaReplicas

Query == [prompt : Prompts, system : Systems, max_tokens : TokenLimits]

VARIABLES
    caching,    \* settings.llm_response_cache_enabled
    installed,  \* the model is among the service's models
    installer,  \* replica whose pull installed it, NoAsker for anything else (history)
    abandoned,  \* the service goes on with a pull whose caller gave up
    removals,   \* how often the model was removed
    puller,     \* puller[r]: holder of the _ollama_pull_lock of replica r
    at,         \* at[a]: replica of the call
    call,       \* call[a]: where the call is
    query,      \* query[a]: its parameters
    posts,      \* posts[a]: requests to generate
    responses,  \* the cache: entries [key, query] of responses (query is history)
    from        \* from[a]: the query whose response the call returned (history)

serviceVars == <<installed, installer, abandoned, removals>>
cacheVars == <<caching, responses, from>>
ollamaVars == <<serviceVars, cacheVars, puller, at, call, query, posts>>

CallStep == {"idle", "list", "want_lock", "locked", "decided", "pull", "relist",
             "generate", "store", "answered", "failed"}

NoQuery == [prompt |-> <<>>, system |-> <<>>, max_tokens |-> <<>>]

OllamaTypeOK ==
    /\ caching \in BOOLEAN
    /\ installed \in BOOLEAN
    /\ installer \in OllamaReplicas \cup {NoAsker}
    /\ abandoned \in BOOLEAN
    /\ removals \in 0..MaxRemovals
    /\ puller \in [OllamaReplicas -> Askers \cup {NoAsker}]
    /\ at \in [Askers -> OllamaReplicas \cup {NoAsker}]
    /\ call \in [Askers -> CallStep]
    /\ query \in [Askers -> Query \cup {NoQuery}]
    /\ posts \in [Askers -> 0..2]
    /\ from \in [Askers -> Query \cup {NoQuery}]

OllamaInit ==
    /\ caching \in BOOLEAN
    /\ installed \in BOOLEAN
    /\ installer = NoAsker
    /\ abandoned = FALSE
    /\ removals = 0
    /\ puller = [r \in OllamaReplicas |-> NoAsker]
    /\ at = [a \in Askers |-> NoAsker]
    /\ call = [a \in Askers |-> "idle"]
    /\ query = [a \in Askers |-> NoQuery]
    /\ posts = [a \in Askers |-> 0]
    /\ responses = {}
    /\ from = [a \in Askers |-> NoQuery]

-----------------------------------------------------------------------------
(* The key of the response cache *)

Quote == "quote"
Backslash == "backslash"

\* json.dumps of a string: quotes and backslashes are escaped.
JsonChar(c) == IF c \in {Quote, Backslash} THEN <<Backslash, c>> ELSE <<c>>

JsonString(text) ==
    <<Quote>> \o FlattenSeq([i \in DOMAIN text |-> JsonChar(text[i])]) \o <<Quote>>

\* The model and the temperature, the same for every call of a deployment.
OLLAMA_MODEL == <<"m">>
OLLAMA_TEMPERATURE == <<"0", ".", "7">>

Separated(fields, sep) ==
    FlattenSeq([i \in DOMAIN fields |-> IF i = 1 THEN fields[i] ELSE sep \o fields[i]])

\* Faulty variant, the one _llm_cache_key's docstring reports of an earlier
\* implementation: the fields are joined with a bar.
CacheKeyJoined(q) ==
    Separated(<<OLLAMA_MODEL, q.system, q.prompt, q.max_tokens, OLLAMA_TEMPERATURE>>, <<"|">>)

\* _llm_cache_key: a JSON list of the parameters.  Its sha256 stands for it: two
\* lists with the same digest are not met.
CacheKey(q) ==
    <<"[">> \o Separated(<<JsonString(OLLAMA_MODEL), JsonString(q.system),
                          JsonString(q.prompt), q.max_tokens, OLLAMA_TEMPERATURE>>, <<",">>)
            \o <<"]">>

-----------------------------------------------------------------------------
(* Calls *)

CallGoes(a, step) == call' = [call EXCEPT ![a] = step]

Unlock(a) == puller' = [r \in OllamaReplicas |-> IF puller[r] = a THEN NoAsker ELSE puller[r]]

\* call_ollama begins with the cache; an error of the cache is a miss.
CallStarts(a) ==
    /\ call[a] = "idle"
    /\ \E r \in OllamaReplicas : at' = [at EXCEPT ![a] = r]
    /\ \E q \in Query :
          /\ query' = [query EXCEPT ![a] = q]
          /\ \/ /\ CallGoes(a, "list")
                /\ UNCHANGED from
             \/ /\ caching
                /\ \E entry \in responses :
                      /\ entry.key = CacheKey(q)
                      /\ from' = [from EXCEPT ![a] = entry.query]
                /\ CallGoes(a, "answered")
    /\ UNCHANGED <<serviceVars, caching, responses, puller, posts>>

\* The service is not reachable, or answers an error or too late, at any step:
\* an HTTPException that gives the lock back.  A pull the caller no longer waits
\* for may go on at the service.
CallFails(a) ==
    /\ call[a] \in {"list", "locked", "decided", "pull", "relist", "generate"}
    /\ CallGoes(a, "failed")
    /\ Unlock(a)
    /\ \/ UNCHANGED abandoned
       \/ call[a] = "pull" /\ abandoned' = TRUE
    /\ UNCHANGED <<installed, installer, removals, cacheVars, at, query, posts>>

\* _ensure_ollama_ready lists the models.
ListModels(a) ==
    /\ call[a] = "list"
    /\ CallGoes(a, IF installed THEN "generate" ELSE "want_lock")
    /\ UNCHANGED <<serviceVars, cacheVars, puller, at, query, posts>>

\* The lock is an asyncio.Lock: it excludes the calls of the same process.
TakePullLock(a) ==
    /\ call[a] = "want_lock"
    /\ puller[at[a]] = NoAsker
    /\ puller' = [puller EXCEPT ![at[a]] = a]
    /\ CallGoes(a, "locked")
    /\ UNCHANGED <<serviceVars, cacheVars, at, query, posts>>

\* Faulty variant: the list made before the lock is trusted.
LockedTrusts(a) ==
    /\ call[a] = "locked"
    /\ CallGoes(a, "decided")
    /\ UNCHANGED <<serviceVars, cacheVars, puller, at, query, posts>>

\* "Check again under the lock to prevent redundant pulls."
CheckUnderLock(a) ==
    /\ call[a] = "locked"
    /\ \/ /\ installed
          /\ CallGoes(a, "relist")
          /\ Unlock(a)
       \/ /\ ~installed /\ ~AutoPull
          /\ CallGoes(a, "failed")
          /\ Unlock(a)
       \/ /\ ~installed /\ AutoPull
          /\ CallGoes(a, "decided")
          /\ UNCHANGED puller
    /\ UNCHANGED <<serviceVars, cacheVars, at, query, posts>>

\* The request to pull reaches the service.
PullBegins(a) ==
    /\ call[a] = "decided"
    /\ CallGoes(a, "pull")
    /\ UNCHANGED <<serviceVars, cacheVars, puller, at, query, posts>>

\* It is answered; a model that is there already is left as it is.
PullEnds(a) ==
    /\ call[a] = "pull"
    /\ installed' = TRUE
    /\ installer' = IF installed THEN installer ELSE at[a]
    /\ Unlock(a)
    /\ CallGoes(a, "relist")
    /\ UNCHANGED <<abandoned, removals, cacheVars, at, query, posts>>

\* The list after the pull is read and not acted upon.
Relist(a) ==
    /\ call[a] = "relist"
    /\ CallGoes(a, "generate")
    /\ UNCHANGED <<serviceVars, cacheVars, puller, at, query, posts>>

\* The request to generate; a 404 about the model is repeated once, after
\* another _ensure_ollama_ready.
Generate(a) ==
    /\ call[a] = "generate"
    /\ posts' = [posts EXCEPT ![a] = @ + 1]
    /\ CallGoes(a, IF installed THEN "store"
                   ELSE IF posts[a] = 0 THEN "list" ELSE "failed")
    /\ UNCHANGED <<serviceVars, cacheVars, puller, at, query>>

\* _llm_cache_set, whose failure goes unnoticed, and the answer.
StoreResponse(a) ==
    /\ call[a] = "store"
    /\ \/ UNCHANGED responses
       \/ /\ caching
          /\ LET key == CacheKey(query[a]) IN
             responses' = {entry \in responses : entry.key # key}
                             \cup {[key |-> key, query |-> query[a]]}
    /\ from' = [from EXCEPT ![a] = query[a]]
    /\ CallGoes(a, "answered")
    /\ UNCHANGED <<serviceVars, caching, puller, at, query, posts>>

-----------------------------------------------------------------------------
\* External: somebody removes the model from the service.
RemoveModel ==
    /\ installed
    /\ removals < MaxRemovals
    /\ removals' = removals + 1
    /\ installed' = FALSE
    /\ UNCHANGED <<installer, abandoned, cacheVars, puller, at, call, query, posts>>

\* External: a pull nobody waits for ends, with the model or without it.
AbandonedPullEnds ==
    /\ abandoned
    /\ abandoned' = FALSE
    /\ \/ UNCHANGED <<installed, installer>>
       \/ ~installed /\ installed' = TRUE /\ installer' = NoAsker
    /\ UNCHANGED <<removals, cacheVars, puller, at, call, query, posts>>

CallStepOf(a) == \/ CallStarts(a) \/ CallFails(a) \/ ListModels(a) \/ TakePullLock(a)
                 \/ CheckUnderLock(a) \/ PullBegins(a) \/ PullEnds(a) \/ Relist(a)
                 \/ Generate(a) \/ StoreResponse(a)

OllamaNext == RemoveModel \/ AbandonedPullEnds \/ (\E a \in Askers : CallStepOf(a))

OllamaSpec == OllamaInit /\ [][OllamaNext]_ollamaVars

-----------------------------------------------------------------------------
(* Properties *)

\* Of the concurrent calls of one process one pulls at a time, and none requests
\* a model that a call of its own process waited for and installed: a waiter
\* never downloads again what the holder of the lock did.  (The lock does not
\* reach the other replica, nor a pull its caller gave up: those may install the
\* model between the list under the lock and the request to pull.)
PullsNeeded ==
    [][/\ \A r \in OllamaReplicas :
            Cardinality({a \in Askers : at'[a] = r /\ call'[a] = "pull"}) <= 1
       /\ \A a \in Askers : call[a] # "pull" /\ call'[a] = "pull"
                             => ~installed \/ installer # at[a]]_ollamaVars

\* A response, from the service or from the cache, was generated for the same
\* prompt, system prompt and limit: the key keeps any two calls apart, whatever
\* quotes, commas, bars and backslashes their texts hold.
OwnResponse == \A a \in Askers : call[a] = "answered" => from[a] = query[a]

=============================================================================
