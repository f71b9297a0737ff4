------------------------ MODULE ConversationsProofs ------------------------
(***************************************************************************)
(* Tenants in conversations, for any number of threads, keys, tenants and  *)
(* restarts: the stored turns of a conversation were all answered within   *)
(* its tenant, and a bound key never leaves its own.                       *)
(***************************************************************************)
EXTENDS Conversations, TLAPS

\* There is somebody to call and something to talk about.
LEMMA IdleCall == NoCall \in Calls /\ NoCall.wants = NoTenant
  <1>1. PICK p \in Principals, c \in Conversations : TRUE
    BY CallerAssumption
  <1>2. [who |-> p, conv |-> c, wants |-> NoTenant] \in Calls
    BY DEF Calls, Scopes
  <1>3. \E k \in Calls : k.wants = NoTenant
    BY <1>2
  <1> QED BY <1>3 DEF NoCall

\* An answered turn keeps the conversation in its tenant.
LEMMA AppendInTenant ==
  ASSUME NEW m \in Memories, InTenant(m, m.tenant), NEW n \in 1..MaxTurns
  PROVE  LET turn == [id |-> n, scope |-> m.tenant]
             new  == [m EXCEPT !.turns = Append(m.turns, turn)]
         IN  /\ new \in Memories
             /\ InTenant(new, new.tenant)
             /\ new.turns # <<>>
             /\ new.tenant = m.tenant
  <1> DEFINE turn == [id |-> n, scope |-> m.tenant]
             new  == [m EXCEPT !.turns = Append(m.turns, turn)]
  <1>1. turn \in Turns /\ m.turns \in Seq(Turns) /\ m.tenant \in Scopes
    BY DEF Memories, Turns
  <1>2. /\ new.turns = Append(m.turns, turn)
        /\ new.tenant = m.tenant
        /\ new \in Memories
    BY <1>1 DEF Memories
  <1>3. /\ Len(new.turns) = Len(m.turns) + 1
        /\ \A i \in 1..Len(m.turns) : new.turns[i] = m.turns[i]
        /\ new.turns[Len(m.turns) + 1] = turn
    BY <1>1, <1>2
  <1>4. InTenant(new, new.tenant)
    BY <1>1, <1>2, <1>3 DEF InTenant
  <1>5. new.turns # <<>>
    BY <1>1, <1>3
  <1> QED BY <1>2, <1>4, <1>5

\* A conversation without turns is in any tenant.
LEMMA EmptyInTenant ==
  ASSUME NEW tenant \in Scopes
  PROVE  /\ [tenant |-> tenant, turns |-> <<>>] \in Memories
         /\ InTenant([tenant |-> tenant, turns |-> <<>>], tenant)
  BY DEF Memories, InTenant

\* The invariant holds at the start.
LEMMA InitConversationInv == Init => ConversationInv
  <1> SUFFICES ASSUME Init PROVE ConversationInv
    OBVIOUS
  <1>1. NoMemory \in Memories
    BY EmptyInTenant DEF NoMemory, Scopes
  <1>2. NoFile \in [kind : Kinds, memory : Memories]
    BY <1>1 DEF NoFile, Kinds
  <1>3. bind \in [Principals -> Scopes]
    BY DEF Init, Bindings, Scopes
  <1>4. TypeOK
    BY <1>1, <1>2, <1>3, IdleCall, BoundAssumption DEF Init, TypeOK, PCs, Scopes
  <1>5. CallInv /\ MemoryInv
    BY DEF Init, CallInv, MemoryInv
  <1>6. TurnsShareTenant
    BY DEF Init, TurnsShareTenant, NoFile
  <1> QED BY <1>4, <1>5, <1>6 DEF ConversationInv

\* Every step keeps the invariant.
LEMMA NextConversationInv == ConversationInv /\ [Next]_vars => ConversationInv'
  <1> SUFFICES ASSUME ConversationInv, [Next]_vars PROVE ConversationInv'
    OBVIOUS
  <1>0. TypeOK /\ CallInv /\ MemoryInv /\ TurnsShareTenant
    BY DEF ConversationInv
  <1>1. NoMemory \in Memories /\ NoCall \in Calls /\ NoCall.wants = NoTenant
    BY EmptyInTenant, IdleCall DEF NoMemory, Scopes
  <1>2. ASSUME NEW t \in Threads, NEW p \in Principals, NEW c \in Conversations,
               NEW wanted \in Scopes, NEW label \in {"access", "load"},
               Start(t, p, c, wanted, label)
        PROVE  ConversationInv'
    <2> DEFINE new == [who |-> p, conv |-> c, wants |-> TenantScope(p, wanted)]
    <2>1. new \in Calls
      BY <1>0 DEF Calls, TenantScope, TypeOK
    <2>2. /\ call' = [call EXCEPT ![t] = new]
          /\ pc' = [pc EXCEPT ![t] = label]
          /\ UNCHANGED <<file, bind, memory, turns, restarts, first, kept>>
      BY <1>2 DEF Start, GoTo, history
    <2>3. TypeOK'
      BY <1>0, <2>1, <2>2 DEF TypeOK, PCs
    <2>4. CallInv'
      BY <1>0, <2>2 DEF CallInv, TenantScope, TypeOK
    <2>5. MemoryInv' /\ TurnsShareTenant'
      BY <1>0, <2>2 DEF MemoryInv, TurnsShareTenant, TypeOK
    <2> QED BY <2>3, <2>4, <2>5 DEF ConversationInv
  <1>3. ASSUME NEW t \in Threads, Abort(t) PROVE ConversationInv'
    <2>1. /\ call' = [call EXCEPT ![t] = NoCall]
          /\ pc' = [pc EXCEPT ![t] = "idle"]
          /\ memory' = [memory EXCEPT ![t] = NoMemory]
          /\ UNCHANGED <<file, bind, turns, restarts, first, kept>>
      BY <1>3 DEF Abort, End, GoTo, history
    <2>2. TypeOK'
      BY <1>0, <1>1, <2>1 DEF TypeOK, PCs
    <2>3. CallInv' /\ MemoryInv' /\ TurnsShareTenant'
      BY <1>0, <2>1 DEF CallInv, MemoryInv, TurnsShareTenant, TypeOK
    <2> QED BY <2>2, <2>3 DEF ConversationInv
  <1>4. ASSUME NEW t \in Threads, Access(t) PROVE ConversationInv'
    <2>1. CASE Abort(t)
      BY <1>3, <2>1
    <2>2. CASE /\ pc[t] = "access"
               /\ pc' = [pc EXCEPT ![t] = "load"]
               /\ UNCHANGED <<file, bind, call, memory, turns, restarts, first, kept>>
      <3>1. TypeOK'
        BY <1>0, <2>2 DEF TypeOK, PCs
      <3>2. CallInv' /\ MemoryInv' /\ TurnsShareTenant'
        BY <1>0, <2>2 DEF CallInv, MemoryInv, TurnsShareTenant, TypeOK
      <3> QED BY <3>1, <3>2 DEF ConversationInv
    <2> QED BY <1>4, <2>1, <2>2 DEF Access, GoTo, history
  <1>5. ASSUME NEW t \in Threads, Load(t) PROVE ConversationInv'
    <2> DEFINE f == FileOf(t)
               wants == call[t].wants
               new == IF f.kind = "whole" THEN f.memory ELSE [tenant |-> wants, turns |-> <<>>]
    <2>1. CASE Abort(t)
      BY <1>3, <2>1
    <2>2. CASE /\ pc[t] = "load"
               /\ f.kind = "missing" \/ (f.kind = "whole" /\ wants \in {NoTenant, f.memory.tenant})
               /\ memory' = [memory EXCEPT ![t] = new]
               /\ pc' = [pc EXCEPT ![t] = "answer"]
               /\ UNCHANGED <<file, bind, call, turns, restarts, first, kept>>
      <3>1. /\ call[t] \in Calls
            /\ call[t].who \in Principals /\ call[t].conv \in Conversations
            /\ wants \in Scopes
            /\ f \in [kind : Kinds, memory : Memories]
        BY <1>0 DEF TypeOK, Calls, FileOf
      <3>2. /\ new \in Memories
            /\ InTenant(new, new.tenant)
            /\ wants # NoTenant => new.tenant = wants
        <4>1. CASE f.kind = "whole"
          BY <1>0, <2>2, <3>1, <4>1 DEF TurnsShareTenant, FileOf
        <4>2. CASE f.kind # "whole"
          BY <3>1, <4>2, EmptyInTenant
        <4> QED BY <4>1, <4>2
      <3> HIDE DEF new
      <3>3. TypeOK'
        BY <1>0, <2>2, <3>2 DEF TypeOK, PCs
      <3>4. MemoryInv'
        BY <1>0, <2>2, <3>2 DEF MemoryInv, TypeOK
      <3>5. CallInv' /\ TurnsShareTenant'
        BY <1>0, <2>2 DEF CallInv, TurnsShareTenant, TypeOK
      <3> QED BY <3>3, <3>4, <3>5 DEF ConversationInv
    <2> QED BY <1>5, <2>1, <2>2 DEF Load, GoTo, history
  <1>6. ASSUME NEW t \in Threads, Answer(t) PROVE ConversationInv'
    <2> DEFINE turn == [id |-> turns + 1, scope |-> memory[t].tenant]
               new == [memory[t] EXCEPT !.turns = Append(memory[t].turns, turn)]
    <2>1. /\ pc[t] = "answer"
          /\ turns < MaxTurns
          /\ turns' = turns + 1
          /\ memory' = [memory EXCEPT ![t] = new]
          /\ pc' = [pc EXCEPT ![t] = "save"]
          /\ UNCHANGED <<file, bind, call, restarts, first, kept>>
      BY <1>0, <1>6 DEF Answer, GoTo, history, TypeOK
    <2>2. turns + 1 \in 1..MaxTurns /\ memory[t] \in Memories
      BY <1>0, <2>1, BoundAssumption DEF TypeOK
    <2>3. InTenant(memory[t], memory[t].tenant)
      BY <1>0, <2>1 DEF MemoryInv
    <2>4. /\ new \in Memories
          /\ InTenant(new, new.tenant)
          /\ new.turns # <<>>
          /\ new.tenant = memory[t].tenant
      BY <2>2, <2>3, AppendInTenant
    <2> HIDE DEF new
    <2>5. TypeOK'
      BY <1>0, <2>1, <2>2, <2>4, BoundAssumption DEF TypeOK, PCs
    <2>6. MemoryInv'
      BY <1>0, <2>1, <2>4 DEF MemoryInv, TypeOK
    <2>7. CallInv' /\ TurnsShareTenant'
      BY <1>0, <2>1 DEF CallInv, TurnsShareTenant, TypeOK
    <2> QED BY <2>5, <2>6, <2>7 DEF ConversationInv
  <1>7. ASSUME NEW t \in Threads, Truncate(t) PROVE ConversationInv'
    <2>1. Torn \in [kind : Kinds, memory : Memories]
      BY <1>1 DEF Torn, Kinds
    <2>2. call[t].who \in Principals /\ call[t].conv \in Conversations
      BY <1>0 DEF TypeOK, Calls
    <2>3. TypeOK'
      BY <1>0, <1>7, <2>1, <2>2 DEF Truncate, Store, GoTo, history, TypeOK, PCs
    <2>4. CallInv' /\ MemoryInv'
      BY <1>0, <1>7 DEF Truncate, GoTo, history, CallInv, MemoryInv, TypeOK
    <2>5. TurnsShareTenant'
      BY <1>0, <1>7, <2>2 DEF Truncate, Store, Torn, TurnsShareTenant, TypeOK
    <2> QED BY <2>3, <2>4, <2>5 DEF ConversationInv
  <1>8. ASSUME NEW t \in Threads, Write(t) PROVE ConversationInv'
    <2> DEFINE p == call[t].who
               c == call[t].conv
               n == memory[t].turns[Len(memory[t].turns)].id
    <2>1. /\ p \in Principals /\ c \in Conversations
          /\ memory[t] \in Memories /\ memory[t].tenant \in Scopes
          /\ Whole(memory[t]) \in [kind : Kinds, memory : Memories]
      BY <1>0 DEF TypeOK, Calls, Memories, Whole, Kinds
    <2>2. InTenant(memory[t], memory[t].tenant) /\ memory[t].turns # <<>>
      BY <1>0, <1>8 DEF Write, MemoryInv
    <2>3. n \in 1..MaxTurns
      <3>1. memory[t].turns \in Seq(Turns)
        BY <2>1 DEF Memories
      <3>2. Len(memory[t].turns) \in 1..Len(memory[t].turns)
        BY <2>2, <3>1
      <3>3. memory[t].turns[Len(memory[t].turns)] \in Turns
        BY <3>1, <3>2
      <3> QED BY <3>3 DEF Turns
    <2>4. /\ pc[t] = "write"
          /\ file' = [file EXCEPT ![p][c] = Whole(memory[t])]
          /\ first' = IF kept[p][c] # {} THEN first
                      ELSE [first EXCEPT ![p][c] = memory[t].tenant]
          /\ kept' = [kept EXCEPT ![p][c] = kept[p][c] \cup {n}]
          /\ call' = [call EXCEPT ![t] = NoCall]
          /\ pc' = [pc EXCEPT ![t] = "idle"]
          /\ memory' = [memory EXCEPT ![t] = NoMemory]
          /\ UNCHANGED <<bind, turns, restarts>>
      BY <1>0, <1>8, <2>1 DEF Write, Store, End, GoTo, TypeOK
    <2> HIDE DEF n, p, c
    <2>5. TypeOK'
      <3>1. file' \in [Principals -> [Conversations -> [kind : Kinds, memory : Memories]]]
        BY <1>0, <2>1, <2>4 DEF TypeOK
      <3>2. first' \in [Principals -> [Conversations -> Scopes]]
        BY <1>0, <2>1, <2>4 DEF TypeOK
      <3>3. kept' \in [Principals -> [Conversations -> SUBSET (1..MaxTurns)]]
        BY <1>0, <2>1, <2>3, <2>4 DEF TypeOK
      <3> QED BY <1>0, <1>1, <2>4, <3>1, <3>2, <3>3 DEF TypeOK, PCs
    <2>6. CallInv' /\ MemoryInv'
      BY <1>0, <2>4 DEF CallInv, MemoryInv, TypeOK
    <2>7. TurnsShareTenant'
      <3>1. Whole(memory[t]).memory = memory[t]
        BY DEF Whole
      <3> QED BY <1>0, <2>1, <2>2, <2>4, <3>1 DEF TurnsShareTenant, TypeOK
    <2> QED BY <2>5, <2>6, <2>7 DEF ConversationInv
  <1>9. CASE Restart
    <2>1. /\ bind' \in [Principals -> Scopes]
          /\ \A p \in Principals \ Keys : bind'[p] = NoTenant
      BY <1>9 DEF Restart, Bindings
    <2>2. TypeOK'
      BY <1>0, <1>1, <1>9, <2>1, BoundAssumption DEF Restart, history, TypeOK, PCs
    <2>3. CallInv'
      <3>1. ASSUME NEW t \in Threads, pc'[t] # "idle"
            PROVE  bind'[call'[t].who] = NoTenant
        <4>1. call[t].who \in Principals \ Keys /\ call'[t] = call[t]
          BY <1>0, <1>9, <3>1 DEF Restart, TypeOK, Calls
        <4> QED BY <2>1, <4>1
      <3> QED BY <3>1 DEF CallInv
    <2>5. MemoryInv'
      BY <1>0, <1>9 DEF Restart, MemoryInv
    <2>4. TurnsShareTenant'
      BY <1>0, <1>9 DEF Restart, TurnsShareTenant
    <2> QED BY <2>2, <2>3, <2>4, <2>5 DEF ConversationInv
  <1>10. CASE UNCHANGED vars
    BY <1>0, <1>10 DEF vars, request, history, ConversationInv, TypeOK, CallInv, MemoryInv,
                       TurnsShareTenant
  <1>11. ASSUME NEW t \in Threads, StartNew(t) \/ StartGiven(t) \/ StartFromCli(t)
         PROVE  ConversationInv'
    BY <1>2, <1>11 DEF StartNew, StartGiven, StartFromCli
  <1>12. ASSUME NEW t \in Threads, AnswerFails(t) \/ WriteFails(t) PROVE ConversationInv'
    BY <1>3, <1>12 DEF AnswerFails, WriteFails
  <1> QED
    BY <1>4, <1>5, <1>6, <1>7, <1>8, <1>9, <1>10, <1>11, <1>12 DEF Next

\* The invariant holds in every reachable state.
THEOREM ConversationInvariant == Spec => []ConversationInv
  BY InitConversationInv, NextConversationInv, PTL DEF Spec

\* Every stored turn was answered from the data of its conversation's tenant.
THEOREM TurnsStayInTenant == Spec => []TurnsShareTenant
  <1>1. ConversationInv => TurnsShareTenant
    BY DEF ConversationInv
  <1> QED BY ConversationInvariant, <1>1, PTL

\* A bound key works with and is shown only turns of its present tenant.
THEOREM BoundKeysAreConfined == Spec => []BoundKeysStayInTenant
  <1>1. ConversationInv => BoundKeysStayInTenant
    <2> SUFFICES ASSUME ConversationInv PROVE BoundKeysStayInTenant
      OBVIOUS
    <2>1. ASSUME NEW t \in Threads, pc[t] \in {"answer", "save", "write"},
                 bind[call[t].who] # NoTenant
          PROVE  /\ memory[t].tenant = bind[call[t].who]
                 /\ InTenant(memory[t], bind[call[t].who])
      <3>1. call[t].wants = bind[call[t].who]
        BY <2>1 DEF ConversationInv, CallInv
      <3>2. /\ InTenant(memory[t], memory[t].tenant)
            /\ memory[t].tenant = call[t].wants
        BY <2>1, <3>1 DEF ConversationInv, MemoryInv
      <3> QED BY <3>1, <3>2
    <2>2. ASSUME NEW p \in Principals, NEW c \in Conversations, Shown(p, c), bind[p] # NoTenant
          PROVE  InTenant(file[p][c].memory, bind[p])
      BY <2>2 DEF ConversationInv, TurnsShareTenant, Shown, Permits
    <2> QED BY <2>1, <2>2 DEF BoundKeysStayInTenant
  <1> QED BY ConversationInvariant, <1>1, PTL
=============================================================================
