-------------------------- MODULE TurnLocksProofs ---------------------------
(***************************************************************************)
(* Proofs about TurnLocks for every set of goroutines, chats and           *)
(* addresses: the lock is exclusive, its reference counts are exact, and   *)
(* it implements KeyedMutex.                                               *)
(*                                                                         *)
(* MutualExclusion is not inductive: it must be known that all callers of  *)
(* one chat point to one object (the registered one) and that this object  *)
(* has one token, in its channel or with one owner.  IInv says so.         *)
(***************************************************************************)
EXTENDS TurnLocks, FiniteSetTheorems, TLAPS

\* A caller has a chat and an object exactly while it is inside a call, and
\* the object is the one registered for the chat.
CallersPoint ==
    \A g \in Callers :
        \/ pc[g] = "idle" /\ mine[g] = NoLock /\ chat[g] = NoChat
        \/ /\ pc[g] # "idle"
           /\ mine[g] \in Locks
           /\ chat[g] \in Chats
           /\ registry[chat[g]] = mine[g]

\* No object serves two chats.
RegistryInjective ==
    \A c, d \in Chats : registry[c] = registry[d] /\ registry[c] # NoLock => c = d

\* Every registered object is referred to, and counts its referrers.
Counted ==
    /\ \A c \in Chats : registry[c] # NoLock =>
           \E g \in Callers : mine[g] = registry[c]
    /\ \A l \in Locks : refs[l] = Cardinality(Referrers(l))

\* One token per registered object: in the channel, or with one owner.
TokenOrOwner ==
    /\ \A g, h \in Callers : Owns(g) /\ Owns(h) /\ mine[g] = mine[h] => g = h
    /\ \A g \in Callers : Owns(g) => token[mine[g]] = 0
    /\ \A c \in Chats : registry[c] # NoLock /\ token[registry[c]] = 0 =>
           \E g \in Callers : Owns(g) /\ mine[g] = registry[c]

IInv == /\ TypeOK
        /\ CallersPoint
        /\ RegistryInjective
        /\ Counted
        /\ TokenOrOwner

-----------------------------------------------------------------------------
(* Reference sets.                                                         *)

\* The references to one object are finitely many, so they can be counted.
LEMMA ReferrersFinite ==
    ASSUME NEW l
    PROVE  IsFiniteSet(Referrers(l))
  BY FS_Subset, TurnLocksAssumption DEF Referrers

\* A caller that starts to refer to l makes the count one more.
LEMMA ReferrersGrow ==
    ASSUME NEW g \in Callers, NEW l, NEW l2, mine \in [Callers -> Locks \cup {NoLock}],
           mine[g] = NoLock, l # NoLock, l2 # NoLock,
           mine' = [mine EXCEPT ![g] = l]
    PROVE  Cardinality(Referrers(l2)') =
               IF l2 = l THEN Cardinality(Referrers(l2)) + 1
               ELSE Cardinality(Referrers(l2))
  <1>1. CASE l2 = l
    <2>1. Referrers(l2)' = Referrers(l2) \cup {g}  BY <1>1 DEF Referrers
    <2>2. g \notin Referrers(l2)                   BY DEF Referrers
    <2>3. QED BY <1>1, <2>1, <2>2, ReferrersFinite, FS_AddElement
  <1>2. CASE l2 # l
    <2>1. Referrers(l2)' = Referrers(l2)           BY <1>2 DEF Referrers
    <2>2. QED BY <1>2, <2>1
  <1>3. QED BY <1>1, <1>2

\* A caller that stops referring to its object makes the count one less.
LEMMA ReferrersShrink ==
    ASSUME NEW g \in Callers, NEW l2, mine \in [Callers -> Locks \cup {NoLock}],
           mine[g] # NoLock, l2 # NoLock,
           mine' = [mine EXCEPT ![g] = NoLock]
    PROVE  Cardinality(Referrers(l2)') =
               IF l2 = mine[g] THEN Cardinality(Referrers(l2)) - 1
               ELSE Cardinality(Referrers(l2))
  <1>1. CASE l2 = mine[g]
    <2>1. Referrers(l2)' = Referrers(l2) \ {g}  BY <1>1 DEF Referrers
    <2>2. g \in Referrers(l2)                   BY <1>1 DEF Referrers
    <2>3. QED BY <1>1, <2>1, <2>2, ReferrersFinite, FS_RemoveElement
  <1>2. CASE l2 # mine[g]
    <2>1. Referrers(l2)' = Referrers(l2)        BY <1>2 DEF Referrers
    <2>2. QED BY <1>2, <2>1
  <1>3. QED BY <1>1, <1>2

\* The last referrer is alone.
LEMMA LastReferrer ==
    ASSUME NEW g \in Callers, NEW h \in Callers,
           Cardinality(Referrers(mine[g])) = 1, mine[h] = mine[g]
    PROVE  h = g
  <1>1. g \in Referrers(mine[g]) /\ h \in Referrers(mine[g])  BY DEF Referrers
  <1>2. PICK x : Referrers(mine[g]) = {x}
    BY ReferrersFinite, FS_Singleton
  <1>3. QED BY <1>1, <1>2

-----------------------------------------------------------------------------
(* One lemma per action: the step preserves IInv.                          *)

\* Enter, the chat already having a lock object: its count goes up by one.
LEMMA EnterKnown ==
    ASSUME IInv, NEW g \in Callers, NEW c \in Chats, Enter(g, c),
           registry[c] # NoLock
    PROVE  IInv'
  <1> USE TurnLocksAssumption
  <1>0. /\ pc[g] = "idle" /\ mine[g] = NoLock
        /\ registry[c] \in Locks
        /\ refs' = [refs EXCEPT ![registry[c]] = @ + 1]
        /\ mine' = [mine EXCEPT ![g] = registry[c]]
        /\ registry' = registry /\ token' = token
        /\ pc' = [pc EXCEPT ![g] = "waiting"]
        /\ chat' = [chat EXCEPT ![g] = c]
        /\ canceled' = [canceled EXCEPT ![g] = FALSE]
    BY DEF Enter, IInv, CallersPoint, TypeOK
  <1>1. TypeOK'            BY <1>0 DEF IInv, TypeOK, Places
  <1>2. CallersPoint'      BY <1>0 DEF IInv, TypeOK, CallersPoint
  <1>3. RegistryInjective' BY <1>0 DEF IInv, RegistryInjective
  <1>4. Counted'
    <2>1. \A d \in Chats : registry'[d] # NoLock =>
              \E h \in Callers : mine'[h] = registry'[d]
      BY <1>0 DEF IInv, Counted, TypeOK
    <2>2. ASSUME NEW l \in Locks PROVE refs'[l] = Cardinality(Referrers(l)')
      <3>1. l # NoLock /\ registry[c] # NoLock
            /\ mine \in [Callers -> Locks \cup {NoLock}]
        BY <1>0 DEF IInv, TypeOK
      <3>2. Cardinality(Referrers(l)') =
                IF l = registry[c] THEN Cardinality(Referrers(l)) + 1
                ELSE Cardinality(Referrers(l))
        BY <1>0, <3>1, ReferrersGrow
      <3>3. Cardinality(Referrers(l)) = refs[l]  BY DEF IInv, Counted
      <3>4. refs'[l] = IF l = registry[c] THEN refs[l] + 1 ELSE refs[l]
        BY <1>0 DEF IInv, TypeOK
      <3>5. QED BY <3>2, <3>3, <3>4
    <2>3. QED BY <2>1, <2>2 DEF Counted
  <1>5. TokenOrOwner'
    BY <1>0 DEF IInv, TypeOK, TokenOrOwner, Owns, CallersPoint
  <1>6. QED BY <1>1, <1>2, <1>3, <1>4, <1>5 DEF IInv

\* Enter, the chat having none: a fresh object has one reference, one token.
LEMMA EnterNew ==
    ASSUME IInv, NEW g \in Callers, NEW c \in Chats, Enter(g, c),
           registry[c] = NoLock
    PROVE  IInv'
  <1> USE TurnLocksAssumption
  <1>0. PICK l \in Locks :
            /\ Unreachable(l)
            /\ pc[g] = "idle" /\ mine[g] = NoLock
            /\ registry' = [registry EXCEPT ![c] = l]
            /\ refs' = [refs EXCEPT ![l] = 1]
            /\ token' = [token EXCEPT ![l] = 1]
            /\ mine' = [mine EXCEPT ![g] = l]
            /\ pc' = [pc EXCEPT ![g] = "waiting"]
            /\ chat' = [chat EXCEPT ![g] = c]
            /\ canceled' = [canceled EXCEPT ![g] = FALSE]
    BY DEF Enter, IInv, CallersPoint, TypeOK
  <1>1. TypeOK'            BY <1>0 DEF IInv, TypeOK, Places, TokenCap
  <1>2. CallersPoint'
    <2>1. \A h \in Callers : pc[h] # "idle" => chat[h] # c
      BY <1>0 DEF IInv, CallersPoint, Unreachable
    <2>2. QED BY <1>0, <2>1 DEF IInv, TypeOK, CallersPoint
  <1>3. RegistryInjective'
    BY <1>0 DEF IInv, TypeOK, RegistryInjective, Unreachable
  <1>4. Counted'
    <2>1. \A d \in Chats : registry'[d] # NoLock =>
              \E h \in Callers : mine'[h] = registry'[d]
      BY <1>0 DEF IInv, Counted, TypeOK, Unreachable
    <2>2. Referrers(l) = {}  BY <1>0 DEF Unreachable, Referrers
    <2>3. Cardinality(Referrers(l)) = 0  BY <2>2, FS_EmptySet
    <2>4. ASSUME NEW k \in Locks PROVE refs'[k] = Cardinality(Referrers(k)')
      <3>1. k # NoLock /\ l # NoLock /\ mine \in [Callers -> Locks \cup {NoLock}]
        BY DEF IInv, TypeOK
      <3>2. Cardinality(Referrers(k)') =
                IF k = l THEN Cardinality(Referrers(k)) + 1
                ELSE Cardinality(Referrers(k))
        BY <1>0, <3>1, ReferrersGrow
      <3>3. Cardinality(Referrers(k)) = refs[k]  BY DEF IInv, Counted
      <3>4. refs'[k] = IF k = l THEN 1 ELSE refs[k]
        BY <1>0 DEF IInv, TypeOK
      <3>5. QED BY <2>3, <3>2, <3>3, <3>4
    <2>5. QED BY <2>1, <2>4 DEF Counted
  <1>5. TokenOrOwner'
    BY <1>0 DEF IInv, TypeOK, TokenOrOwner, Owns, CallersPoint, Unreachable
  <1>6. QED BY <1>1, <1>2, <1>3, <1>4, <1>5 DEF IInv

\* TakeToken moves the one token from the channel to one owner.
LEMMA TakeTokenStep ==
    ASSUME IInv, NEW g \in Callers, TakeToken(g)
    PROVE  IInv'
  <1> USE TurnLocksAssumption
  <1>0. /\ mine[g] \in Locks /\ token[mine[g]] = 1 /\ pc[g] = "waiting"
        /\ token' = [token EXCEPT ![mine[g]] = 0]
        /\ pc' = [pc EXCEPT ![g] = "took"]
        /\ UNCHANGED <<registry, refs, chat, mine, canceled>>
    <2>1. mine[g] \in Locks  BY DEF TakeToken, IInv, CallersPoint
    <2>2. token[mine[g]] = 1
      BY <2>1 DEF TakeToken, IInv, TypeOK, TokenCap
    <2>3. QED BY <2>1, <2>2 DEF TakeToken
  <1>1. TypeOK'            BY <1>0 DEF IInv, TypeOK, Places, TokenCap
  <1>2. CallersPoint'      BY <1>0 DEF IInv, TypeOK, CallersPoint
  <1>3. RegistryInjective' BY <1>0 DEF IInv, RegistryInjective
  <1>4. Counted'           BY <1>0 DEF IInv, Counted, Referrers
  <1>5. TokenOrOwner'
    BY <1>0 DEF IInv, TypeOK, TokenOrOwner, Owns, CallersPoint
  <1>6. QED BY <1>1, <1>2, <1>3, <1>4, <1>5 DEF IInv

\* PutBack, on either of its paths, moves the token from its owner back.
LEMMA PutBackStep ==
    ASSUME IInv, NEW g \in Callers, Owns(g), PutBack(g)
    PROVE  IInv'
  <1> USE TurnLocksAssumption
  <1>0. /\ mine[g] \in Locks /\ token[mine[g]] = 0
        /\ pc[g] \in {"took", "held"}
        /\ token' = [token EXCEPT ![mine[g]] = 1]
        /\ pc' = [pc EXCEPT ![g] = "dropping"]
        /\ UNCHANGED <<registry, refs, chat, mine, canceled>>
    <2>1. mine[g] \in Locks /\ token[mine[g]] = 0 /\ pc[g] \in {"took", "held"}
      BY DEF Owns, IInv, CallersPoint, TokenOrOwner
    <2>2. QED BY <2>1 DEF PutBack
  <1>1. TypeOK'            BY <1>0 DEF IInv, TypeOK, Places, TokenCap
  <1>2. CallersPoint'      BY <1>0 DEF IInv, TypeOK, CallersPoint
  <1>3. RegistryInjective' BY <1>0 DEF IInv, RegistryInjective
  <1>4. Counted'           BY <1>0 DEF IInv, Counted, Referrers
  <1>5. TokenOrOwner'
    <2>1. \A h \in Callers : Owns(h)' => Owns(h) /\ h # g
      BY <1>0 DEF IInv, TypeOK, Owns
    <2>2. \A h \in Callers : Owns(h)' => mine[h] # mine[g]
      BY <2>1 DEF IInv, TokenOrOwner
    <2>3. \A h \in Callers : h # g /\ Owns(h) => Owns(h)'
      BY <1>0 DEF IInv, TypeOK, Owns
    <2>4. \A h \in Callers : Owns(h)' => mine[h] \in Locks
      BY <2>1 DEF IInv, CallersPoint, Owns
    <2>5. QED BY <1>0, <2>1, <2>2, <2>3, <2>4 DEF IInv, TypeOK, TokenOrOwner
  <1>6. QED BY <1>1, <1>2, <1>3, <1>4, <1>5 DEF IInv

\* DropRef forgets the chat exactly when the last reference goes.
LEMMA DropRefStep ==
    ASSUME IInv, NEW g \in Callers, DropRef(g)
    PROVE  IInv'
  <1> USE TurnLocksAssumption
  <1> DEFINE l == mine[g]
  <1>0. /\ pc[g] = "dropping" /\ l \in Locks /\ chat[g] \in Chats
        /\ registry[chat[g]] = l
        /\ refs' = [refs EXCEPT ![l] = @ - 1]
        /\ pc' = [pc EXCEPT ![g] = "idle"]
        /\ chat' = [chat EXCEPT ![g] = NoChat]
        /\ mine' = [mine EXCEPT ![g] = NoLock]
        /\ UNCHANGED <<token, canceled>>
    BY DEF DropRef, IInv, CallersPoint
  <1>1. /\ refs[l] = 1 => registry' = [registry EXCEPT ![chat[g]] = NoLock]
        /\ refs[l] # 1 => registry' = registry
    BY DEF DropRef
  <1>2. refs[l] \in Nat /\ refs[l] # 0
    <2>1. g \in Referrers(l)  BY DEF Referrers
    <2>2. Cardinality(Referrers(l)) # 0
      BY <2>1, ReferrersFinite, FS_EmptySet
    <2>3. QED BY <1>0, <2>2 DEF IInv, Counted, TypeOK
  <1>3. refs[l] = 1 => \A h \in Callers : mine[h] = l => h = g
    BY <1>0, LastReferrer DEF IInv, Counted
  <1>4. TypeOK'
    BY <1>0, <1>1, <1>2 DEF IInv, TypeOK, Places
  <1>5. CallersPoint'
    <2>1. ASSUME NEW h \in Callers, h # g, pc[h] # "idle"
          PROVE  registry'[chat[h]] = mine[h]
      <3>1. registry[chat[h]] = mine[h] /\ chat[h] \in Chats
        BY <2>1 DEF IInv, CallersPoint
      <3>2. CASE refs[l] = 1
        <4>1. chat[h] # chat[g]  BY <3>2, <3>1, <1>0, <1>3, <2>1
        <4>2. QED BY <4>1, <3>1, <3>2, <1>1 DEF IInv, TypeOK
      <3>3. QED BY <3>1, <3>2, <1>1
    <2>2. QED BY <1>0, <2>1 DEF IInv, TypeOK, CallersPoint
  <1>6. RegistryInjective'
    BY <1>0, <1>1 DEF IInv, TypeOK, RegistryInjective
  <1>7. Counted'
    <2>1. ASSUME NEW d \in Chats, registry'[d] # NoLock
          PROVE  \E h \in Callers : mine'[h] = registry'[d]
      <3>1. registry[d] # NoLock /\ registry'[d] = registry[d]
        BY <2>1, <1>0, <1>1 DEF IInv, TypeOK
      <3>2. PICK h \in Callers : mine[h] = registry[d]
        BY <3>1 DEF IInv, Counted
      <3>3. CASE h # g  BY <3>1, <3>2, <3>3, <1>0 DEF IInv, TypeOK
      <3>4. CASE h = g
        <4>1. d = chat[g]
          BY <3>1, <3>2, <3>4, <1>0 DEF IInv, RegistryInjective
        <4>2. refs[l] # 1
          BY <4>1, <2>1, <1>0, <1>1 DEF IInv, TypeOK
        <4>3. PICK k \in Callers : mine[k] = l /\ k # g
          <5>1. \E k \in Callers : mine[k] = l /\ k # g
            <6>1. SUFFICES ASSUME \A k \in Callers : mine[k] = l => k = g
                           PROVE  FALSE
              OBVIOUS
            <6>2. Referrers(l) = {g}  BY <6>1 DEF Referrers
            <6>3. Cardinality(Referrers(l)) = 1  BY <6>2, FS_Singleton
            <6>4. refs[l] = 1  BY <6>3, <1>0 DEF IInv, Counted
            <6>5. QED BY <6>4, <4>2
          <5>2. QED BY <5>1
        <4>4. QED BY <4>3, <3>1, <3>2, <3>4, <1>0 DEF IInv, TypeOK
      <3>5. QED BY <3>3, <3>4
    <2>2. ASSUME NEW k \in Locks PROVE refs'[k] = Cardinality(Referrers(k)')
      BY <1>0, ReferrersShrink DEF IInv, TypeOK, Counted
    <2>3. QED BY <2>1, <2>2 DEF Counted
  <1>8. TokenOrOwner'
    <2>1. \A h \in Callers : Owns(h)' <=> Owns(h)
      BY <1>0 DEF IInv, TypeOK, Owns
    <2>2. \A h \in Callers : Owns(h) => h # g /\ mine'[h] = mine[h]
      BY <1>0 DEF IInv, TypeOK, Owns
    <2>3. \A d \in Chats : registry'[d] # NoLock => registry'[d] = registry[d]
      BY <1>0, <1>1 DEF IInv, TypeOK
    <2>4. QED BY <1>0, <2>1, <2>2, <2>3 DEF IInv, TokenOrOwner
  <1>9. QED BY <1>4, <1>5, <1>6, <1>7, <1>8 DEF IInv

\* Steps that move only one caller's place or context, keeping what it owns.
LEMMA QuietStep ==
    ASSUME IInv, NEW g \in Callers,
           Cancel(g) \/ GiveUp(g) \/ RecheckOk(g)
    PROVE  IInv'
  <1> USE TurnLocksAssumption
  <1>0. /\ UNCHANGED <<registry, refs, token, chat, mine>>
        /\ \A h \in Callers : Owns(h)' <=> Owns(h)
        /\ \A h \in Callers : pc'[h] = "idle" <=> pc[h] = "idle"
    BY DEF Cancel, GiveUp, RecheckOk, Owns, IInv, TypeOK
  <1>1. TypeOK'
    BY DEF Cancel, GiveUp, RecheckOk, IInv, TypeOK, Places
  <1>2. CallersPoint'      BY <1>0 DEF IInv, CallersPoint
  <1>3. RegistryInjective' BY <1>0 DEF IInv, RegistryInjective
  <1>4. Counted'           BY <1>0 DEF IInv, Counted, Referrers
  <1>5. TokenOrOwner'      BY <1>0 DEF IInv, TokenOrOwner
  <1>6. QED BY <1>1, <1>2, <1>3, <1>4, <1>5 DEF IInv

-----------------------------------------------------------------------------
\* IInv holds when the process starts.
LEMMA InitIInv == Init => IInv
  <1> SUFFICES ASSUME Init PROVE IInv  OBVIOUS
  <1> USE TurnLocksAssumption
  <1>1. TypeOK             BY DEF Init, TypeOK, Places, TokenCap
  <1>2. CallersPoint       BY DEF Init, CallersPoint
  <1>3. RegistryInjective  BY DEF Init, RegistryInjective
  <1>4. Counted
    <2>1. ASSUME NEW l \in Locks PROVE Cardinality(Referrers(l)) = 0
      <3>1. Referrers(l) = {}  BY DEF Init, Referrers
      <3>2. QED BY <3>1, FS_EmptySet
    <2>2. QED BY <2>1 DEF Init, Counted
  <1>5. TokenOrOwner       BY DEF Init, TokenOrOwner, Owns
  <1>6. QED BY <1>1, <1>2, <1>3, <1>4, <1>5 DEF IInv

\* IInv is inductive.
LEMMA NextIInv == IInv /\ [Next]_vars => IInv'
  <1> SUFFICES ASSUME IInv, [Next]_vars PROVE IInv'  OBVIOUS
  <1>1. ASSUME NEW g \in Callers, NEW c \in Chats, Enter(g, c) PROVE IInv'
    BY <1>1, EnterKnown, EnterNew
  <1>2. ASSUME NEW g \in Callers, TakeToken(g) PROVE IInv'
    BY <1>2, TakeTokenStep
  <1>3. ASSUME NEW g \in Callers, RecheckCanceled(g) \/ Unlock(g) PROVE IInv'
    BY <1>3, PutBackStep DEF RecheckCanceled, Unlock, Owns
  <1>4. ASSUME NEW g \in Callers, DropRef(g) PROVE IInv'
    BY <1>4, DropRefStep
  <1>5. ASSUME NEW g \in Callers, Cancel(g) \/ GiveUp(g) \/ RecheckOk(g)
        PROVE  IInv'
    BY <1>5, QuietStep
  <1>6. CASE UNCHANGED vars
    BY <1>6 DEF vars, IInv, TypeOK, CallersPoint, RegistryInjective, Counted,
                TokenOrOwner, Owns, Referrers
  <1>7. QED BY <1>1, <1>2, <1>3, <1>4, <1>5, <1>6 DEF Next

\* The inductive invariant holds in every reachable state.
THEOREM Inductive == Spec => []IInv
  BY InitIInv, NextIInv, PTL DEF Spec

-----------------------------------------------------------------------------
\* lockChatTurn's exclusion, for any number of goroutines and chats: owners of
\* one chat point to the registered object, and that object has one token.
THEOREM ExclusiveTurns == Spec => []MutualExclusion
  <1>1. IInv => MutualExclusion
    BY DEF IInv, MutualExclusion, CallersPoint, TokenOrOwner, Owns
  <1>2. QED BY <1>1, Inductive, PTL

\* The registry's reference counting, for any number of goroutines and chats:
\* counts are exact, no entry outlives its users, no user a forgotten object.
THEOREM ExactReferences == Spec => []RefsExact
  <1>1. IInv => RefsExact
    <2> SUFFICES ASSUME IInv PROVE RefsExact  OBVIOUS
    <2>1. ASSUME NEW c \in Chats, registry[c] # NoLock
          PROVE  refs[registry[c]] > 0
      <3>1. registry[c] \in Locks  BY <2>1 DEF IInv, TypeOK
      <3>2. Referrers(registry[c]) # {}
        BY <2>1 DEF IInv, Counted, Referrers
      <3>3. Cardinality(Referrers(registry[c])) # 0
        BY <3>2, ReferrersFinite, FS_EmptySet
      <3>4. refs[registry[c]] \in Nat /\ refs[registry[c]] # 0
        BY <3>1, <3>3 DEF IInv, TypeOK, Counted
      <3>5. QED BY <3>4
    <2>2. QED BY <2>1 DEF IInv, Counted, CallersPoint, RefsExact
  <1>2. QED BY <1>1, Inductive, PTL

\* The token of a registered object is in its channel or with one owner, so a
\* goroutine that gives it back is never blocked by a full channel.
THEOREM OneToken == Spec => []TokenConserved
  <1>1. IInv => TokenConserved
    <2> SUFFICES ASSUME IInv, NEW c \in Chats, registry[c] # NoLock
                 PROVE  token[registry[c]]
                          + Cardinality({g \in Referrers(registry[c]) : Owns(g)})
                            = TokenCap
      BY DEF TokenConserved
    <2> DEFINE l == registry[c]
               O == {g \in Referrers(l) : Owns(g)}
    <2>1. l \in Locks /\ token[l] \in 0..1
      BY DEF IInv, TypeOK, TokenCap
    <2>2. CASE token[l] = 0
      <3>1. PICK g \in Callers : Owns(g) /\ mine[g] = l
        BY <2>2 DEF IInv, TokenOrOwner
      <3>2. O = {g}  BY <3>1 DEF IInv, TokenOrOwner, Referrers
      <3>3. Cardinality(O) = 1  BY <3>2, FS_Singleton
      <3>4. QED BY <2>2, <3>3 DEF TokenCap
    <2>3. CASE token[l] = 1
      <3>1. O = {}  BY <2>3 DEF IInv, TokenOrOwner, Referrers
      <3>2. Cardinality(O) = 0  BY <3>1, FS_EmptySet
      <3>3. QED BY <2>3, <3>2 DEF TokenCap
    <2>4. QED BY <2>1, <2>2, <2>3
  <1>2. QED BY <1>1, Inductive, PTL

-----------------------------------------------------------------------------
(* Refinement.  The abstract variable, named.                              *)
Holding == [g \in Callers |-> IF Owns(g) THEN chat[g] ELSE NoChat]

\* A step that changes neither who owns nor what the owners asked for is a
\* stuttering step of the abstract lock.
LEMMA StutterHolding ==
    ASSUME \A g \in Callers : Owns(g)' <=> Owns(g),
           \A g \in Callers : Owns(g) => chat'[g] = chat[g]
    PROVE  Holding' = Holding
  BY DEF Holding

\* TakeToken is the abstract lock's Acquire.
LEMMA TakeTokenAcquires ==
    ASSUME IInv, NEW g \in Callers, TakeToken(g)
    PROVE  \E k \in Chats : Mutex!Acquire(g, k)
  <1> USE TurnLocksAssumption
  <1>1. /\ chat[g] \in Chats /\ mine[g] = registry[chat[g]]
        /\ token[mine[g]] # 0 /\ ~Owns(g)
    BY DEF TakeToken, IInv, CallersPoint, TypeOK, Owns, TokenCap
  <1>2. PICK k \in Chats : k = chat[g]  BY <1>1
  <1>3. \A h \in Callers : Owns(h) => chat[h] # k
    BY <1>1, <1>2 DEF IInv, CallersPoint, TokenOrOwner, Owns
  <1>4. Holding[g] = NoChat /\ \A h \in Callers : Holding[h] # k
    BY <1>1, <1>3 DEF Holding
  <1>5. Holding' = [Holding EXCEPT ![g] = k]
    BY <1>1, <1>2 DEF TakeToken, Holding, Owns, IInv, TypeOK
  <1>6. Mutex!Acquire(g, k)
    BY <1>4, <1>5 DEF Mutex!Acquire, Mutex!Free, Holding
  <1>7. QED BY <1>6

\* PutBack is the abstract lock's Release.
LEMMA PutBackReleases ==
    ASSUME IInv, NEW g \in Callers, Owns(g), PutBack(g)
    PROVE  Mutex!Release(g)
  <1> USE TurnLocksAssumption
  <1>1. chat[g] \in Chats  BY DEF IInv, CallersPoint, Owns
  <1>2. Holding[g] # NoChat  BY <1>1 DEF Holding
  <1>3. Holding' = [Holding EXCEPT ![g] = NoChat]
    BY DEF PutBack, Holding, Owns, IInv, TypeOK
  <1>4. QED BY <1>2, <1>3 DEF Mutex!Release, Holding

\* Every step of the registry is a step of the abstract lock or changes
\* nothing of it.
LEMMA NextImplements ==
    IInv /\ [Next]_vars => [Mutex!Next]_Holding
  <1> SUFFICES ASSUME IInv, [Next]_vars PROVE [Mutex!Next]_Holding  OBVIOUS
  <1> USE TurnLocksAssumption
  <1>1. ASSUME NEW g \in Callers, NEW c \in Chats, Enter(g, c)
        PROVE  Holding' = Holding
    BY <1>1, StutterHolding DEF Enter, IInv, TypeOK, Owns
  <1>2. ASSUME NEW g \in Callers, TakeToken(g) PROVE Mutex!Next
    <2>1. \E k \in Chats : Mutex!Acquire(g, k)
      BY <1>2, TakeTokenAcquires
    <2>2. QED BY <2>1 DEF Mutex!Next
  <1>3. ASSUME NEW g \in Callers, RecheckCanceled(g) \/ Unlock(g)
        PROVE  Mutex!Next
    BY <1>3, PutBackReleases DEF Mutex!Next, RecheckCanceled, Unlock, Owns
  <1>4. ASSUME NEW g \in Callers, DropRef(g) PROVE Holding' = Holding
    BY <1>4, StutterHolding DEF DropRef, IInv, TypeOK, Owns
  <1>5. ASSUME NEW g \in Callers, Cancel(g) \/ GiveUp(g) \/ RecheckOk(g)
        PROVE  Holding' = Holding
    BY <1>5, StutterHolding
       DEF Cancel, GiveUp, RecheckOk, IInv, TypeOK, Owns
  <1>6. CASE UNCHANGED vars
    BY <1>6 DEF vars, Holding, Owns
  <1>7. QED BY <1>1, <1>2, <1>3, <1>4, <1>5, <1>6 DEF Next

\* The registry, its counting and its channels implement the abstract lock:
\* what ChatTurns assumes of lockChatTurn.
THEOREM RegistryImplementsMutex == Spec => ImplementsMutex
  <1>1. Init => Mutex!Init
    BY DEF Init, Mutex!Init, Owns
  <1>2. IInv /\ [Next]_vars => [Mutex!Next]_Holding
    BY NextImplements
  <1>3. QED BY <1>1, <1>2, Inductive, PTL
            DEF Spec, ImplementsMutex, Mutex!Spec, Holding
=============================================================================
