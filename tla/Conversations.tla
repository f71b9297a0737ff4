--------------------------- MODULE Conversations ---------------------------
(***************************************************************************)
(* POST /chat and GET /conversations/{id}: stored conversations, their     *)
(* owners and their tenants.                                               *)
(*                                                                         *)
(* FeedbackInsightAgent.chat loads a conversation, answers with its turns  *)
(* as context and saves the whole conversation back; JsonConversationStore *)
(* has no lock and truncates a file before it writes it.  Every API key    *)
(* has a directory of its own; keys may be bound to a tenant, and bindings *)
(* change when the API restarts.  The chat command of the CLI, and an API  *)
(* without keys, work in the directory above them and know no bindings.    *)
(***************************************************************************)
EXTENDS Naturals, Sequences

CONSTANTS
  Threads,        \* request threads and CLI processes
  Principals,     \* API keys, and the caller without a key
  Keys,           \* the principals that present an API key
  Conversations,  \* conversation ids
  Tenants,
  NoTenant,       \* an unscoped conversation, an unbound key
  MaxTurns,       \* bound on answered messages
  MaxRestarts     \* bound on restarts of the API

ASSUME CallerAssumption == Principals # {} /\ Conversations # {}
ASSUME TenantAssumption == NoTenant \notin Tenants
ASSUME BoundAssumption == MaxTurns \in Nat /\ MaxRestarts \in Nat

Scopes == Tenants \cup {NoTenant}

Turns == [id : 1..MaxTurns, scope : Scopes]

\* ConversationMemory
Memories == [tenant : Scopes, turns : Seq(Turns)]

NoMemory == [tenant |-> NoTenant, turns |-> <<>>]

\* A file is missing, truncated, or holds a memory.
Kinds == {"missing", "torn", "whole"}
NoFile == [kind |-> "missing", memory |-> NoMemory]
Torn == [kind |-> "torn", memory |-> NoMemory]
Whole(memory) == [kind |-> "whole", memory |-> memory]

Calls == [who : Principals, conv : Conversations, wants : Scopes]

\* What an idle thread last handled does not matter.
NoCall == CHOOSE k \in Calls : k.wants = NoTenant

PCs == {"idle", "access", "load", "answer", "save", "write"}

VARIABLES
  file,     \* file[p][c]: the file of conversation c in the directory of p
  bind,     \* bind[p]: the tenant key p is bound to
  pc,       \* pc[t]: the next step of thread t
  call,     \* call[t]: the request thread t handles
  memory,   \* memory[t]: the conversation thread t works on
  turns,    \* messages answered so far
  restarts,
  first,    \* history: first[p][c], the tenant the conversation started with
  kept      \* history: kept[p][c], the turns of the chats that returned

request == <<pc, call, memory>>
history == <<first, kept>>
vars == <<file, bind, request, turns, restarts, history>>

GoTo(t, label) == pc' = [pc EXCEPT ![t] = label]

FileOf(t) == file[call[t].who][call[t].conv]

Store(t, f) == file' = [file EXCEPT ![call[t].who][call[t].conv] = f]

\* Mutant: unscoped histories are open to bound keys.
PermitsUnscoped(p, tenant) == bind[p] = NoTenant \/ tenant \in {NoTenant, bind[p]}

\* ApiPrincipal.permits_tenant
Permits(p, tenant) == bind[p] = NoTenant \/ bind[p] = tenant

\* _tenant_scope, for a tenant the key permits.
TenantScope(p, wanted) == IF bind[p] # NoTenant THEN bind[p] ELSE wanted

Bindings == {b \in [Principals -> Scopes] : \A p \in Principals \ Keys : b[p] = NoTenant}

-----------------------------------------------------------------------------
Init ==
  /\ file = [p \in Principals |-> [c \in Conversations |-> NoFile]]
  /\ bind \in Bindings
  /\ pc = [t \in Threads |-> "idle"]
  /\ call = [t \in Threads |-> NoCall]
  /\ memory = [t \in Threads |-> NoMemory]
  /\ turns = 0
  /\ restarts = 0
  /\ first = [p \in Principals |-> [c \in Conversations |-> NoTenant]]
  /\ kept = [p \in Principals |-> [c \in Conversations |-> {}]]

\* new_conversation_id: an id nobody has used.
Unused(c) ==
  /\ \A p \in Principals : file[p][c].kind = "missing"
  /\ \A t \in Threads : pc[t] # "idle" => call[t].conv # c

Start(t, p, c, wanted, label) ==
  /\ pc[t] = "idle"
  /\ turns < MaxTurns
  /\ wanted # NoTenant => Permits(p, wanted)
  /\ GoTo(t, label)
  /\ call' = [call EXCEPT ![t] = [who |-> p, conv |-> c, wants |-> TenantScope(p, wanted)]]
  /\ UNCHANGED <<file, bind, memory, turns, restarts, history>>

\* A chat without a conversation id.
StartNew(t) ==
  \E p \in Principals, c \in Conversations, wanted \in Scopes :
    Unused(c) /\ Start(t, p, c, wanted, "load")

\* A chat with a key and an id the caller names, which must exist.
StartGiven(t) ==
  \E p \in Principals \cap Keys, c \in Conversations, wanted \in Scopes :
    Start(t, p, c, wanted, "access")

\* The chat command, with one message or its loop: an id may be a new one.
StartFromCli(t) ==
  \E p \in Principals \ Keys, c \in Conversations, wanted \in Scopes :
    Start(t, p, c, wanted, "load")

End(t) ==
  /\ GoTo(t, "idle")
  /\ call' = [call EXCEPT ![t] = NoCall]
  /\ memory' = [memory EXCEPT ![t] = NoMemory]

\* The request ends without an answer.
Abort(t) == End(t) /\ UNCHANGED <<file, bind, turns, restarts, history>>

\* The API looks the conversation up first: 404, 400 for a torn file.
Access(t) ==
  /\ pc[t] = "access"
  /\ IF FileOf(t).kind = "whole" /\ Permits(call[t].who, FileOf(t).memory.tenant)
       THEN GoTo(t, "load") /\ UNCHANGED <<file, bind, call, memory, turns, restarts, history>>
       ELSE Abort(t)

\* chat loads the conversation or starts one with the requested tenant.
Load(t) ==
  /\ pc[t] = "load"
  /\ LET f == FileOf(t)
         wants == call[t].wants
     IN  \/ /\ f.kind = "torn" \/ (f.kind = "whole" /\ wants \notin {NoTenant, f.memory.tenant})
            /\ Abort(t)
         \/ /\ f.kind = "missing" \/ (f.kind = "whole" /\ wants \in {NoTenant, f.memory.tenant})
            /\ memory' = [memory EXCEPT ![t] =
                 IF f.kind = "whole" THEN f.memory ELSE [tenant |-> wants, turns |-> <<>>]]
            /\ GoTo(t, "answer")
            /\ UNCHANGED <<file, bind, call, turns, restarts, history>>

\* Mutant: the turn is answered with the filters of the request alone.
AnswerAsRequested(t) ==
  /\ pc[t] = "answer"
  /\ turns < MaxTurns
  /\ turns' = turns + 1
  /\ memory' = [memory EXCEPT ![t].turns = Append(memory[t].turns,
       [id |-> turns + 1, scope |-> call[t].wants])]
  /\ GoTo(t, "save")
  /\ UNCHANGED <<file, bind, call, restarts, history>>

\* The answer is retrieved within the conversation's tenant, or the agent fails.
Answer(t) ==
  /\ pc[t] = "answer"
  /\ turns < MaxTurns
  /\ turns' = turns + 1
  /\ memory' = [memory EXCEPT ![t].turns = Append(memory[t].turns,
       [id |-> turns + 1, scope |-> memory[t].tenant])]
  /\ GoTo(t, "save")
  /\ UNCHANGED <<file, bind, call, restarts, history>>

AnswerFails(t) == pc[t] = "answer" /\ Abort(t)

\* JsonConversationStore.save truncates the file, then writes it.
Truncate(t) ==
  /\ pc[t] = "save"
  /\ Store(t, Torn)
  /\ GoTo(t, "write")
  /\ UNCHANGED <<bind, call, memory, turns, restarts, history>>

Write(t) ==
  /\ pc[t] = "write"
  /\ Store(t, Whole(memory[t]))
  /\ LET p == call[t].who
         c == call[t].conv
     IN  /\ first' = IF kept[p][c] # {} THEN first ELSE [first EXCEPT ![p][c] = memory[t].tenant]
         /\ kept' = [kept EXCEPT ![p][c] = @ \cup {memory[t].turns[Len(memory[t].turns)].id}]
  /\ End(t)
  /\ UNCHANGED <<bind, turns, restarts>>

\* The disk is full: the truncated file stays.
WriteFails(t) == pc[t] = "write" /\ Abort(t)

\* The API restarts, maybe with other tenant bindings; CLI processes go on.
Restart ==
  /\ restarts < MaxRestarts
  /\ restarts' = restarts + 1
  /\ bind' \in Bindings
  /\ LET goesOn == {t \in Threads : call[t].who \notin Keys}
     IN  /\ pc' = [t \in Threads |-> IF t \in goesOn THEN pc[t] ELSE "idle"]
         /\ call' = [t \in Threads |-> IF t \in goesOn THEN call[t] ELSE NoCall]
         /\ memory' = [t \in Threads |-> IF t \in goesOn THEN memory[t] ELSE NoMemory]
  /\ UNCHANGED <<file, turns, history>>

Next ==
  \/ \E t \in Threads : \/ StartNew(t) \/ StartGiven(t) \/ StartFromCli(t) \/ Access(t) \/ Load(t)
                        \/ Answer(t) \/ AnswerFails(t) \/ Truncate(t) \/ Write(t)
                        \/ WriteFails(t)
  \/ Restart

Spec == Init /\ [][Next]_vars

-----------------------------------------------------------------------------
\* get_conversation answers the whole memory to a key it permits.
Shown(p, c) == file[p][c].kind = "whole" /\ Permits(p, file[p][c].memory.tenant)

(* Properties.                                                             *)

\* Every variable keeps its type.
TypeOK ==
  /\ file \in [Principals -> [Conversations -> [kind : Kinds, memory : Memories]]]
  /\ bind \in [Principals -> Scopes]
  /\ pc \in [Threads -> PCs]
  /\ call \in [Threads -> Calls]
  /\ memory \in [Threads -> Memories]
  /\ turns \in 0..MaxTurns
  /\ restarts \in 0..MaxRestarts
  /\ first \in [Principals -> [Conversations -> Scopes]]
  /\ kept \in [Principals -> [Conversations -> SUBSET (1..MaxTurns)]]

InTenant(m, tenant) == \A i \in 1..Len(m.turns) : m.turns[i].scope = tenant

\* Every stored turn was answered from the data of its conversation's tenant,
\* however chats, failures and new bindings interleave.
TurnsShareTenant ==
  \A p \in Principals, c \in Conversations :
    file[p][c].kind = "whole" => InTenant(file[p][c].memory, file[p][c].memory.tenant)

\* What a thread at work knows: the request carries the tenant of a bound key,
\* and the loaded turns and the request agree with the conversation's tenant.
CallInv ==
  \A t \in Threads : pc[t] # "idle" /\ bind[call[t].who] # NoTenant =>
    call[t].wants = bind[call[t].who]

MemoryInv ==
  \A t \in Threads :
    /\ pc[t] \in {"answer", "save", "write"} =>
         /\ InTenant(memory[t], memory[t].tenant)
         /\ call[t].wants # NoTenant => memory[t].tenant = call[t].wants
    /\ pc[t] \in {"save", "write"} => memory[t].turns # <<>>

\* The inductive invariant.
ConversationInv == TypeOK /\ CallInv /\ MemoryInv /\ TurnsShareTenant

\* A bound key works with, and is shown, turns of its present tenant only:
\* "binding or reassigning a key makes its old unscoped or foreign histories
\* unavailable through the API" (README).
BoundKeysStayInTenant ==
  /\ \A t \in Threads : pc[t] \in {"answer", "save", "write"} /\ bind[call[t].who] # NoTenant =>
       /\ memory[t].tenant = bind[call[t].who]
       /\ InTenant(memory[t], bind[call[t].who])
  /\ \A p \in Principals, c \in Conversations : Shown(p, c) /\ bind[p] # NoTenant =>
       InTenant(file[p][c].memory, bind[p])

\* "Each conversation persists its initial tenant_id for retrieval" (README).
\* It holds when every caller presents a key; two overlapping first messages
\* without a key may choose one id and two tenants, and the later save wins.
InitialTenantIsKept ==
  \A p \in Principals, c \in Conversations :
    file[p][c].kind = "whole" => file[p][c].memory.tenant = first[p][c]

\* A chat that returned stays in its conversation: "persist the turn".
TurnsAreKept ==
  \A p \in Principals, c \in Conversations : file[p][c].kind = "whole" =>
    \A n \in kept[p][c] : \E i \in 1..Len(file[p][c].memory.turns) :
      file[p][c].memory.turns[i].id = n
=============================================================================
