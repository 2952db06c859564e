--------------------------- MODULE AppSound_proofs ---------------------------
(***************************************************************************)
(* Proofs about what mtype promises and what its code takes for granted,   *)
(* for every program whose method files have no other use: no failure is   *)
(* silent, no function's type is registered twice, and what an analysed    *)
(* file names has been analysed.                                            *)
(***************************************************************************)
EXTENDS App_proofs

---------------------------------------------------------------------------
(* Steps *)

\* The top of the stack is replaced by the frame t.
LEMMA TopReplaced ==
  ASSUME LoaderTypeOK, stack # <<>>, NEW t, stack' = Append(Below, t)
  PROVE  /\ DOMAIN stack' = DOMAIN stack /\ Len(stack) \in DOMAIN stack
         /\ stack'[Len(stack)] = t /\ stack[Len(stack)] = Top
         /\ \A k \in DOMAIN stack : k # Len(stack) => stack'[k] = stack[k]
  <1>1. /\ Len(stack) \in Nat /\ Len(stack) > 0 /\ Below \in Seq(Frame)
        /\ Len(Below) = Len(stack) - 1 /\ \A k \in 1..Len(Below) : Below[k] = stack[k]
    BY StackTyped
  <1>2. DOMAIN stack = 1..Len(stack)
    BY DomainOfStack
  <1> QED
    BY <1>1, <1>2 DEF Top

\* What steps outside of file_entry do to the stages of the entries.
LEMMA StageSteps ==
  ASSUME TypeOK, LoadInv, [Next]_vars, ~Load
  PROVE  /\ \A f \in File : store'[f].status = store[f].status
         /\ UNCHANGED <<world, scans, stack, methodDefs, scopeImports, superDefs>>
         /\ reported => reported'
         /\ \/ /\ \A f \in File : store'[f].ids = store[f].ids /\ store'[f].gen = store[f].gen
               /\ UNCHANGED typed
            \/ /\ phase = "ids"
               /\ \E g \in File : 
                    /\ ResolveIdentifiersOf(g)
                    /\ \A f \in File : /\ store'[f].ids = (store[f].ids \/ f = g)
                                       /\ store'[f].gen = store[f].gen
            \/ /\ GenerateTypeConstraints /\ phase = "constraints" /\ UNCHANGED typed
               /\ \A f \in File : /\ store'[f].ids = store[f].ids
                                  /\ store'[f].gen = (store[f].gen \/ f \in rootFiles)
  <1>1. store \in [File -> Entry] /\ rootFile \in File /\ rootFiles \subseteq File
    BY DEF TypeOK, LoaderTypeOK, VisitTypeOK
  <1>2. CASE VisitNewFile
    <2>1. stack = <<>>
      BY <1>2 DEF VisitNewFile, LoadInv, CallChain
    <2> QED
      BY <1>2, <2>1 DEF VisitNewFile, externalVars
  <1>3. CASE VisitKnownFile \/ LocateRootIdentifiers \/ Finish \/ UNCHANGED vars
             \/ ResolvedIdentifiers \/ Unified
    BY <1>3 DEF VisitKnownFile, LocateRootIdentifiers, Finish, vars, loaderVars, externalVars,
                fileState, ResolvedIdentifiers, Unified
  <1>4. CASE Resolve
    BY <1>4 DEF Resolve, ResolveExternalFunctions, loaderVars, fileState
  <1>5. ASSUME NEW p \in Fn, UnifyOne(p) PROVE UNCHANGED <<loaderVars, typed>>
    BY <1>5 DEF UnifyOne, CheckFunction
  <1>6. CASE Loaded
    BY <1>1, <1>6 DEF Loaded, externalVars, Entry
  <1>7. CASE ResolveTypeImports
    BY <1>1, <1>7 DEF ResolveTypeImports, externalVars, Entry
  <1>8. ASSUME NEW g \in File, ResolveIdentifiersOf(g)
        PROVE  /\ \A f \in File : /\ store'[f].ids = (store[f].ids \/ f = g)
                                  /\ store'[f].gen = store[f].gen
                                  /\ store'[f].status = store[f].status
               /\ UNCHANGED <<world, scans, stack, methodDefs, scopeImports, superDefs>>
               /\ phase = "ids" /\ (reported => reported')
    BY <1>1, <1>8 DEF ResolveIdentifiersOf, Entry
  <1>9. CASE GenerateTypeConstraints
    BY <1>1, <1>9 DEF GenerateTypeConstraints, externalVars, Entry
  <1> QED
    BY <1>2, <1>3, <1>4, <1>5, <1>6, <1>7, <1>8, <1>9 DEF Next, Stopped, loaderVars, fileState

---------------------------------------------------------------------------
(* No failure is silent: loading *)

\* The steps that file_entry can take when nothing has been reported.
LEMMA SoundSteps ==
  ASSUME TypeOK, SilentInv, FileEntryStep, ~reported'
  PROVE  /\ ~reported
         /\ \/ LookupHit \/ ParseSuccess \/ CallFileEntry \/ UndefinedAbstractMethod \/ EndOfLoop
            \/ RegisterSuperclass /\ IsClass(arg)
            \/ AddImport
            \/ ExtractMethod /\ Advance(TRUE)
  <1>1. ~reported
    BY DEF FileEntryStep, LookupHit, ScanFailure, ParseFailure, ParseSuccess, CallFileEntry,
      UndefinedAbstractMethod, UnresolvedFile, EndOfLoop, CalleeFailed, RegisterSuperclass,
      AddImport, NoMethodFile, ExtractMethod, TypeOK, LoaderTypeOK
  <1>2. ~ScanFailure /\ ~ParseFailure /\ ~UnresolvedFile
    BY DEF ScanFailure, ParseFailure, UnresolvedFile
  <1>3. mode = "return" => ret = "entry" /\ Parsed(arg)
    BY <1>1 DEF SilentInv
  <1>4. ~CalleeFailed
    BY <1>3 DEF CalleeFailed, Returned
  <1>5. ~NoMethodFile
    BY <1>3 DEF NoMethodFile, Returned
  <1>6. RegisterSuperclass => IsClass(arg)
    BY DEF RegisterSuperclass
  <1>7. ASSUME ExtractMethod PROVE Advance(TRUE)
    <2>1. PICK extracts : /\ extracts = Info(Top.file).methods[Top.i].extracts
                          /\ reported' = (reported \/ ~extracts) /\ Advance(extracts)
      BY <1>7 DEF ExtractMethod
    <2>2. extracts
      BY <2>1
    <2> QED
      BY <2>1, <2>2 DEF Advance
  <1> QED
    BY <1>1, <1>2, <1>4, <1>5, <1>6, <1>7 DEF FileEntryStep

LEMMA SilentLoad ==
  ASSUME TypeOK, LoadInv, SilentInv, Load
  PROVE  SilentInv'
  <1> USE DEF TypeOK, LoadInv
  <1> SUFFICES ASSUME ~reported' PROVE SilentInv'
    BY DEF SilentInv
  <1>1. FileEntryStep /\ phase = "load" /\ phase' = "load" /\ UNCHANGED typed
    BY DEF Load, externalVars
  <1>2. ~reported
    BY <1>1, SoundSteps
  <1>3. store \in [File -> Entry] /\ arg \in File /\ UNCHANGED world
    BY WorldKept DEF LoaderTypeOK, Next
  <1>4. ASSUME NEW f \in File, Stored(f)' PROVE SoundEntry(f)'
    <2>1. Stored(f) => Parsed(f) /\ (store[f].gen \/ f \in rootFiles)
      BY <1>2 DEF SilentInv, SoundEntry
    <2>2. ~ScanFailure /\ ~ParseFailure
      BY DEF ScanFailure, ParseFailure
    <2> QED
      BY <1>1, <1>3, <1>4, <2>1, <2>2, StoreSteps DEF SoundEntry, Ongoing, Stored, Parsed, Fresh
  <1>5. ASSUME NEW k \in DOMAIN stack' PROVE stack'[k].ok
    <2>1. \A j \in DOMAIN stack : stack[j].ok
      BY <1>2 DEF SilentInv
    <2>2. CASE LookupHit \/ CallFileEntry
      BY <1>5, <2>1, <2>2 DEF LookupHit, CallFileEntry
    <2>3. CASE ParseSuccess
      <3>1. PICK t : t.ok = TRUE /\ stack' = Append(stack, t)
        BY <2>3 DEF ParseSuccess
      <3> QED
        BY <1>5, <2>1, <3>1 DEF LoaderTypeOK
    <2>4. ASSUME stack # <<>>, NEW t, t.ok, stack' = Append(Below, t) PROVE stack'[k].ok
      BY <1>5, <2>1, <2>4, TopReplaced
    <2>5. ASSUME stack # <<>>, Advance(TRUE) PROVE stack'[k].ok
      <3>1. Top.ok
        BY <2>1, <2>5, DomainOfStack DEF Top
      <3>2. PICK t : t.ok = (Top.ok /\ TRUE) /\ stack' = Append(Below, t)
        BY <2>5 DEF Advance
      <3> QED
        BY <2>4, <2>5, <3>1, <3>2
    <2>6. CASE UndefinedAbstractMethod
      BY <2>5, <2>6 DEF UndefinedAbstractMethod, Looping, LoaderTypeOK
    <2>7. CASE (RegisterSuperclass /\ IsClass(arg)) \/ AddImport \/ (ExtractMethod /\ Advance(TRUE))
      BY <2>5, <2>7 DEF RegisterSuperclass, AddImport, ExtractMethod, Returned
    <2>8. CASE EndOfLoop
      <3>1. stack # <<>> /\ Top.ok
        BY <2>1, <2>8, DomainOfStack DEF Top, EndOfLoop, LoaderTypeOK
      <3>2. CASE stack' = Below
        <4>1. /\ Len(stack) \in Nat /\ Below \in Seq(Frame)
              /\ Len(Below) = Len(stack) - 1 /\ \A j \in 1..Len(Below) : Below[j] = stack[j]
          BY <3>1, StackTyped
        <4>2. k \in 1..Len(Below) /\ k \in DOMAIN stack
          BY <1>5, <3>2, <4>1, DomainOfStack
        <4> QED
          BY <2>1, <3>2, <4>1, <4>2
      <3>3. CASE \E t : t.ok = Top.ok /\ stack' = Append(Below, t)
        BY <2>4, <3>1, <3>3
      <3> QED
        BY <2>8, <3>2, <3>3 DEF EndOfLoop
    <2> QED
      BY <1>1, <2>2, <2>3, <2>6, <2>7, <2>8, SoundSteps
  <1>6. ASSUME mode' = "return" PROVE ret' = "entry" /\ Parsed(arg)'
    <2>1. CASE LookupHit
      BY <1>2, <1>3, <2>1 DEF LookupHit, Return, SilentInv, SoundEntry, Parsed
    <2>2. CASE EndOfLoop
      <3>1. /\ Len(stack) \in DOMAIN stack /\ Top = stack[Len(stack)]
            /\ UNCHANGED store /\ arg' = Top.file /\ ret' = (IF Top.ok THEN "entry" ELSE "null")
        BY <1>6, <2>2, DomainOfStack DEF Top, EndOfLoop, LoaderTypeOK, Return, fileState
      <3> QED
        BY <1>2, <3>1 DEF SilentInv, EntriesInUse, Parsed
    <2>3. CASE ParseSuccess \/ CallFileEntry \/ RegisterSuperclass \/ AddImport \/ ExtractMethod
      BY <1>6, <2>3 DEF ParseSuccess, CallFileEntry, RegisterSuperclass, AddImport, ExtractMethod,
        Returned
    <2>4. CASE UndefinedAbstractMethod
      BY <1>6, <2>4 DEF UndefinedAbstractMethod, Looping
    <2> QED
      BY <1>1, <2>1, <2>2, <2>3, <2>4, SoundSteps
  <1>7. ASSUME NEW f \in File, store'[f].ids
        PROVE  Info(f)'.ids = "ok" /\ (ThisParse(f) \in typed)'
    <2>1. store'[f] = store[f] /\ scans'[f] = scans[f]
      BY <1>1, <1>3, <1>7, StoreSteps, ScanSteps DEF Fresh, Stored, LoaderTypeOK
    <2> QED
      BY <1>1, <1>2, <1>3, <1>7, <2>1 DEF SilentInv, Info, ThisParse
  <1> QED
    BY <1>4, <1>5, <1>6, <1>7 DEF SilentInv

\* An entry that still has to be analysed stays in the visit, or is analysed in this step.
LEMMA VisitGoesOn ==
  ASSUME TypeOK, LoadInv, SilentInv, [Next]_vars, ~Load, ~reported', ~reported, Ongoing,
         NEW f \in rootFiles
  PROVE  store'[f].gen \/ (f \in rootFiles' /\ Ongoing')
  <1>1. CASE UNCHANGED vars
    BY <1>1 DEF vars, loaderVars, fileState, Ongoing
  <1>2. CASE Loaded
    <2>1. ret = "entry" /\ \A g \in rootFiles : Parsed(g)
      BY <1>2 DEF Loaded, SilentInv, SoundEntry, LoadInv, RootsInStore, TypeOK, LoaderTypeOK
    <2> QED
      BY <1>2, <2>1 DEF Loaded, Ongoing
  <1>3. CASE ResolveTypeImports
    BY <1>3 DEF ResolveTypeImports, Ongoing
  <1>4. ASSUME NEW g \in File, ResolveIdentifiersOf(g) PROVE f \in rootFiles' /\ Ongoing'
    BY <1>4 DEF ResolveIdentifiersOf, Ongoing
  <1>5. CASE ResolvedIdentifiers
    BY <1>5 DEF ResolvedIdentifiers, fileState, Ongoing
  <1>6. CASE GenerateTypeConstraints
    <2>1. f \in File /\ store \in [File -> Entry]
      BY DEF TypeOK, LoaderTypeOK
    <2> QED
      BY <1>6, <2>1 DEF GenerateTypeConstraints, Entry
  <1>7. ~(LocateRootIdentifiers \/ VisitKnownFile \/ VisitNewFile \/ Finish \/ Resolve \/ Unified
            \/ \E p \in Fn : UnifyOne(p))
    BY DEF LocateRootIdentifiers, VisitKnownFile, VisitNewFile, Finish, Resolve, Unified, UnifyOne,
      Ongoing
  <1> QED
    BY <1>1, <1>2, <1>3, <1>4, <1>5, <1>6, <1>7 DEF Next, Stopped

LEMMA SilentStep ==
  ASSUME TypeOK, LoadInv, SilentInv, [Next]_vars
  PROVE  SilentInv'
  <1>1. CASE Load
    BY <1>1, SilentLoad
  <1> SUFFICES ASSUME ~Load, ~reported' PROVE SilentInv'
    BY <1>1 DEF SilentInv
  <1>2. /\ ~reported
        /\ \A f \in File : Stored(f)' = Stored(f) /\ Parsed(f)' = Parsed(f)
        /\ \A f \in File : store[f].gen => store'[f].gen
        /\ UNCHANGED <<world, scans, stack>>
    BY StageSteps DEF Stored, Parsed, TypeOK, LoaderTypeOK
  <1>3. ASSUME NEW f \in File, Stored(f)' PROVE SoundEntry(f)'
    <2>1. Parsed(f) /\ (store[f].gen \/ (f \in rootFiles /\ Ongoing))
      BY <1>2, <1>3 DEF SilentInv, SoundEntry
    <2>2. store'[f].gen \/ (f \in rootFiles' /\ Ongoing')
      BY <1>2, <2>1, VisitGoesOn
    <2> QED
      BY <1>2, <2>1, <2>2 DEF SoundEntry
  <1>4. ASSUME mode' = "return" PROVE ret' = "entry" /\ Parsed(arg)'
    <2>1. UNCHANGED <<mode, arg, ret>>
      BY <1>4, OtherSteps DEF VisitNewFile, Loaded, vars, loaderVars
    <2>2. arg \in File
      BY DEF TypeOK, LoaderTypeOK
    <2> QED
      BY <1>2, <1>4, <2>1, <2>2 DEF SilentInv, Parsed
  <1>5. ASSUME NEW f \in File, store'[f].ids
        PROVE  Info(f)'.ids = "ok" /\ (ThisParse(f) \in typed)'
    <2>1. CASE store[f].ids /\ typed \subseteq typed'
      BY <1>2, <2>1 DEF SilentInv, Info, ThisParse
    <2>2. ASSUME NEW g \in File, ResolveIdentifiersOf(g)
          PROVE /\ Info(g).ids = "ok" /\ ThisParse(g) \in typed' /\ typed \subseteq typed'
      BY <1>2, <2>2 DEF ResolveIdentifiersOf
    <2> QED
      BY <1>2, <1>5, <2>1, <2>2, StageSteps DEF Info, ThisParse
  <1> QED
    BY <1>2, <1>3, <1>4, <1>5 DEF SilentInv

LEMMA SilentInit == Init => SilentInv
  <1> SUFFICES ASSUME Init PROVE SilentInv
    OBVIOUS
  <1>1. stack = <<>> /\ DOMAIN stack = {}
    BY DEF Init, LoaderInit
  <1> QED
    BY <1>1 DEF Init, LoaderInit, Fresh, SilentInv, Stored

---------------------------------------------------------------------------
(* No failure is silent: external functions *)

LEMMA KeysStep ==
  ASSUME TypeOK, PendingInv, KeysInv, [Next]_vars
  PROVE  KeysInv'
  <1>1. CASE phase = "locate"
    <2>1. LocateRootIdentifiers \/ UNCHANGED vars
      BY <1>1 DEF Next, VisitKnownFile, VisitNewFile, Finish, Load, Loaded, ResolveTypeImports,
        ResolveIdentifiersOf, ResolvedIdentifiers, GenerateTypeConstraints, Resolve, UnifyOne,
        Unified, Stopped
    <2> QED
      BY <1>1, <2>1 DEF LocateRootIdentifiers, vars, externalVars, KeysInv
  <1>2. CASE phase # "locate"
    <2>1. visited \subseteq visited'
      BY <1>2, VisitedGrows
    <2>2. phase' # "locate"
      BY <1>2 DEF Next, LocateRootIdentifiers, VisitKnownFile, VisitNewFile, Finish, Load, Loaded,
        ResolveTypeImports, ResolveIdentifiersOf, ResolvedIdentifiers, GenerateTypeConstraints,
        Resolve, UnifyOne, Unified, Stopped, ReturnFalse, ReturnTrue, vars
    <2>3. CASE Resolve \/ UNCHANGED keys
      BY <2>1, <2>2, <2>3 DEF Resolve, ResolveExternalFunctions, KeysInv
    <2>4. ASSUME NEW p \in Fn, UnifyOne(p) PROVE keys' \subseteq visited'
      BY <2>4 DEF UnifyOne, CheckFunction, KeysInv
    <2> QED
      BY <2>2, <2>3, <2>4, ExternalSteps DEF KeysInv
  <1> QED
    BY <1>1, <1>2

\* Errors are not forgotten.
LEMMA ErrorsKept ==
  ASSUME [Next]_vars
  PROVE  unresolved \subseteq unresolved'
  BY ExternalSteps DEF Resolve, ResolveExternalFunctions, UnifyOne, CheckFunction

\* A pass over the pending functions answers all that are pending on a file that is loaded.
LEMMA AnsweredByPass ==
  ASSUME TypeOK, StageInv, PendingInv, SilentInv, AnsweredInv, Resolve,
         ~reported', unresolved' = {}, NEW c \in keys
  PROVE  /\ UNCHANGED keys /\ Settled(c)' /\ (Waiting(c)' \/ c \in resolved')
  <1> DEFINE loaded  == {d \in keys : Parsed(CandFile[d])}
             missing == {d \in loaded : ~HasHandle(d)}
             ready   == {d \in loaded : HasHandle(d) /\ HasType(d)}
  <1>1. /\ phase = "resolve" /\ UNCHANGED <<keys, typed, world, store, scans, reported>>
        /\ resolved' = resolved \cup ready
        /\ unresolved' = unresolved \cup UNION {pending[d] : d \in missing}
        /\ pending' = [d \in Cand |-> IF d \in missing \cup ready THEN {} ELSE pending[d]]
    BY DEF Resolve, ResolveExternalFunctions, loaderVars, fileState
  <1>2. c \in Cand /\ CandFile[c] \in File
    BY NamesAssumption DEF TypeOK, ExternalTypeOK
  <1>3. ~reported /\ unresolved = {}
    BY <1>1
  <1>4. Waiting(c) \/ c \in resolved
    BY <1>3 DEF AnsweredInv
  <1>5. Stored(CandFile[c]) => Parsed(CandFile[c]) /\ HasType(c)
    BY <1>1, <1>2, <1>3 DEF SilentInv, SoundEntry, Ongoing, StageInv, StageOrder, HasType
  <1>6. c \in missing => pending[c] = {}
    BY <1>1
  <1> HIDE DEF missing, ready
  <1>7. CASE Stored(CandFile[c])
    <2>1. c \in ready \/ c \in missing
      BY <1>5, <1>7 DEF ready, missing
    <2>2. c \in resolved' /\ pending'[c] = {}
      BY <1>1, <1>2, <1>4, <1>6, <2>1 DEF Waiting
    <2> QED
      BY <1>1, <2>2 DEF Settled, Waiting
  <1>8. CASE ~Stored(CandFile[c])
    <2>1. c \notin missing /\ c \notin ready
      BY <1>8 DEF missing, ready, Parsed, Stored
    <2> QED
      BY <1>1, <1>2, <1>4, <1>8, <2>1 DEF Settled, Waiting, Stored
  <1> QED
    BY <1>1, <1>7, <1>8

LEMMA AnsweredStep ==
  ASSUME TypeOK, LoadInv, StageInv, PendingInv, SilentInv, KeysInv, AnsweredInv, [Next]_vars
  PROVE  AnsweredInv'
  <1> SUFFICES ASSUME ~reported', unresolved' = {} PROVE AnsweredInv'
    BY DEF AnsweredInv
  <1>1. /\ keys \subseteq Cand /\ pending \in [Cand -> SUBSET Fn] /\ store \in [File -> Entry]
        /\ \A c \in Cand : CandFile[c] \in File
    BY NamesAssumption DEF TypeOK, ExternalTypeOK, LoaderTypeOK
  <1>2. CASE Resolve
    <2>1. /\ UNCHANGED keys /\ numPending' = Cardinality(keys) /\ phase' = "unify"
      BY <1>2 DEF Resolve, ResolveExternalFunctions
    <2>2. keys \in SUBSET keys' /\ \A c \in keys : Settled(c)' /\ (Waiting(c)' \/ c \in resolved')
      BY <1>2, <2>1, AnsweredByPass
    <2> QED
      BY <2>1, <2>2 DEF AnsweredInv, Settled, Waiting
  <1>3. unresolved = {}
    BY ErrorsKept
  <1>4. ~reported
    <2>1. CASE Load
      BY <2>1, SoundSteps DEF Load
    <2> QED
      BY <2>1, StageSteps
  <1>5. \A c \in keys : Waiting(c) \/ c \in resolved
    BY <1>3, <1>4 DEF AnsweredInv
  <1>6. ASSUME NEW p \in Fn, UnifyOne(p) PROVE AnsweredInv'
    <2>1. phase = "unify" /\ phase' = "unify" /\ CheckFunction(p)
          /\ UNCHANGED <<numPending, resolved, store>>
      BY <1>6 DEF UnifyOne, CheckFunction, loaderVars, fileState, visitVars
    <2>2. /\ keys \subseteq keys'
          /\ \A c \in Cand : pending[c] \subseteq pending'[c]
          /\ \A c \in Cand : c \in resolved => pending'[c] = pending[c]
          /\ \A c \in keys' : c \in keys \/ pending'[c] # {}
      BY <1>1, <2>1 DEF CheckFunction
    <2>3. \A c \in keys' : Waiting(c)' \/ c \in resolved'
      BY <1>1, <1>5, <2>1, <2>2 DEF Waiting
    <2>4. PICK before \in SUBSET keys :
            Cardinality(before) = numPending /\ \A c \in before : Settled(c)
      BY <1>3, <1>4, <2>1 DEF AnsweredInv
    <2>5. \A c \in before : Settled(c)'
      BY <1>1, <2>1, <2>2, <2>4 DEF Settled, Waiting, Stored
    <2>6. before \in SUBSET keys' /\ Cardinality(before) = numPending'
      BY <2>1, <2>2, <2>4
    <2> QED
      BY <2>1, <2>3, <2>5, <2>6 DEF AnsweredInv, Settled, Waiting, Stored
  <1>7. ASSUME UNCHANGED <<resolved, keys, pending, visitedPairs, checked, called, unresolved>>
        PROVE  AnsweredInv'
    <2>1. \A c \in keys' : Waiting(c)' \/ c \in resolved'
      BY <1>5, <1>7 DEF Waiting
    <2>2. ASSUME NEW c \in Cand, Waiting(c), phase' \in {"iterate", "done"},
                 phase \notin {"iterate", "done"}
          PROVE  ~Stored(CandFile[c])
      <3>1. c \in keys
        BY <2>2 DEF PendingInv, Waiting
      <3>2. ~LocateRootIdentifiers
        BY <3>1 DEF LocateRootIdentifiers, KeysInv
      <3>3. ~Loaded
        BY <1>4, <2>2 DEF Loaded, ReturnFalse, SilentInv, SoundEntry, LoadInv, RootsInStore,
          TypeOK, LoaderTypeOK
      <3>4. ~ResolveTypeImports /\ ~ResolvedIdentifiers
        BY <2>2 DEF ResolveTypeImports, ResolvedIdentifiers, ReturnFalse
      <3>5. Unified
        BY <2>2, <3>2, <3>3, <3>4 DEF Next, VisitKnownFile, VisitNewFile, Finish, Load,
          ResolveIdentifiersOf, GenerateTypeConstraints, Resolve, UnifyOne, Stopped, vars
      <3>6. phase = "unify" /\ Cardinality(keys) = numPending
        BY <2>2, <3>5 DEF Unified
      <3>7. PICK before \in SUBSET keys :
              Cardinality(before) = numPending /\ \A d \in before : Settled(d)
        BY <1>3, <1>4, <3>6 DEF AnsweredInv
      <3>8. before = keys
        BY <3>6, <3>7, FiniteKeys
      <3> QED
        BY <2>2, <3>1, <3>7, <3>8 DEF Settled
    <2>3. ASSUME phase' \in {"iterate", "done", "unify"}
          PROVE  \A f \in File : Stored(f)' = Stored(f)
      <3>1. ~Load
        BY <2>3 DEF Load
      <3> QED
        BY <3>1, ScansStay
    <2>4. ASSUME NEW c \in Cand, Waiting(c)', phase' \in {"iterate", "done"}
          PROVE  ~Stored(CandFile[c])'
      <3>1. Waiting(c)
        BY <1>7, <2>4 DEF Waiting
      <3>2. ~Stored(CandFile[c])
        BY <1>3, <1>4, <2>2, <2>4, <3>1 DEF AnsweredInv
      <3> QED
        BY <1>1, <2>3, <2>4, <3>2
    <2>5. ASSUME phase' = "unify", ~Resolve, \A p \in Fn : ~UnifyOne(p)
          PROVE  \E before \in SUBSET keys' :
                   Cardinality(before) = numPending' /\ \A c \in before : Settled(c)'
      <3>1. UNCHANGED vars
        BY <2>5 DEF Next, LocateRootIdentifiers, VisitKnownFile, VisitNewFile, Finish, Load, Loaded,
          ResolveTypeImports, ResolveIdentifiersOf, ResolvedIdentifiers, GenerateTypeConstraints,
          Unified, Stopped, ReturnFalse, ReturnTrue
      <3>2. phase = "unify" /\ UNCHANGED <<numPending, store>>
        BY <2>5, <3>1 DEF vars, visitVars, loaderVars, fileState
      <3> QED
        BY <1>3, <1>4, <1>7, <3>2 DEF AnsweredInv, Settled, Waiting, Stored
    <2> QED
      BY <1>2, <1>6, <2>1, <2>4, <2>5 DEF AnsweredInv
  <1> QED
    BY <1>2, <1>6, <1>7, ExternalSteps

\* A failed visit leaves what it loaded in the AstStore, and main goes on.  But then there is
\* an error to show for it, in every program whose method files have no other use: if
\* there is none, all that was ever loaded was analysed, and every function that was looked
\* for has been given the type of its callee.
THEOREM NothingFailsSilently ==
  ASSUME \A w \in Worlds : MethodFilesApart(w)
  PROVE  Spec => []NoSilentFailure
  <1> DEFINE Inv == /\ TypeOK /\ LoadInv /\ StageInv /\ PendingInv /\ TriedInv
                    /\ SilentInv /\ KeysInv /\ AnsweredInv
  <1>1. Init => Inv
    <2>1. Init => StageInv /\ TriedInv /\ KeysInv /\ AnsweredInv
      BY DEF Init, LoaderInit, ExternalInit, Fresh, StageInv, StageOrder, TriedInv, KeysInv,
        AnsweredInv
    <2> QED
      BY <2>1, InitTyped, LoadInvInit, PendingInit, SilentInit
  <1>2. Inv /\ [Next]_vars => Inv'
    BY NextTyped, LoadInvStep, StageStep, PendingStep, TriedStep, SilentStep, KeysStep,
      AnsweredStep
  <1>3. Inv => NoSilentFailure
    <2> SUFFICES ASSUME Inv, phase = "done", ~reported, unresolved = {}
                 PROVE  /\ \A f \in File : Stored(f) => Parsed(f) /\ store[f].gen
                        /\ checked \subseteq called
      BY DEF NoSilentFailure
    <2>1. \A f \in File : Stored(f) => Parsed(f) /\ store[f].gen
      BY DEF SilentInv, SoundEntry, Ongoing
    <2>2. ASSUME NEW p \in checked, p \notin called PROVE FALSE
      <3>1. PICK c \in Cand : p \in pending[c]
        BY <2>2 DEF PendingInv, PendingOnce
      <3>2. ~Stored(CandFile[c]) /\ c \in keys
        BY <3>1 DEF AnsweredInv, Waiting, PendingInv
      <3>3. c \in visited
        BY <3>2 DEF KeysInv
      <3> QED
        BY <3>2, <3>3 DEF TriedInv
    <2> QED
      BY <2>1, <2>2
  <1> QED
    BY <1>1, <1>2, <1>3, PTL DEF Spec

---------------------------------------------------------------------------
(* The types of functions *)

\* While a method's file is asked for, or returned, its class is not past the method.
LEMMA NotPastYet ==
  ASSUME TypeOK, LoadInv, phase = "load", mode \in {"enter", "return"},
         \A w \in Worlds : MethodFilesApart(w),
         NEW g \in File, NEW i \in DOMAIN Info(g).methods, Info(g).methods[i].file = arg
  PROVE  ~PastMethod(g, i)
  <1>1. /\ Top = stack[Len(stack)] /\ Len(stack) \in DOMAIN stack
        /\ Top.step = "methods" /\ Top.file = g /\ Top.i = i
    BY CalledAsMethod DEF LoadInv
  <1>2. Top.i \in Nat
    BY <1>1, DomainOfStack DEF Frame, TypeOK
  <1> QED
    BY <1>1, <1>2 DEF PastMethod

\* Method files keep their names; so do the definitions that were moved out of them.
LEMMA MethodIndex ==
  ASSUME TypeOK, NEW g \in File, NEW i \in DOMAIN Info(g).methods
  PROVE  i \in Nat
  <1>1. Info(g).methods \in Seq(Method)
    BY DEF TypeOK, LoaderTypeOK, World, FileInfo, Info
  <1> QED
    BY <1>1

LEMMA MovedLoad ==
  ASSUME TypeOK, LoadInv, ScansInv, MovedInv, Load, \A w \in Worlds : MethodFilesApart(w)
  PROVE  MovedInv'
  <1>1. FileEntryStep /\ phase = "load" /\ UNCHANGED world
    BY WorldKept DEF Load, Next
  <1>2. /\ arg \in File /\ store \in [File -> Entry] /\ scans \in [File -> Nat]
        /\ methodDefs \in [File -> SUBSET (File \X Nat)] /\ LoaderTypeOK
    BY DEF TypeOK, LoaderTypeOK
  <1>3. ASSUME NEW f \in File, NEW def \in methodDefs[f] PROVE MovedFrom(f, def)'
    <2>1. PICK i \in DOMAIN Info(f).methods :
            /\ Info(f).methods[i].file = def[1] /\ PastMethod(f, i)
            /\ def[2] = scans[def[1]] /\ ~Stored(def[1])
      BY DEF MovedInv, MovedFrom
    <2>2. def[1] \in File /\ i \in Nat
      BY <1>2, <2>1, MethodIndex
    <2>3. PastMethod(f, i)'
      BY <1>1, <2>1, <2>2, PastKept
    <2>4. mode \in {"enter", "return"} => def[1] # arg
      BY <1>1, <2>1, NotPastYet
    <2>5. scans'[def[1]] = scans[def[1]]
      BY <1>1, <1>2, <2>2, <2>4, ScanSteps
    <2>6. ~Stored(def[1])'
      <3>1. ScanFailure \/ ParseFailure => mode = "enter"
        BY DEF ScanFailure, ParseFailure
      <3>2. \/ UNCHANGED store
            \/ \E s : def[1] # arg /\ store' = [store EXCEPT ![arg] = Fresh(s)]
            \/ store' = [store EXCEPT ![arg] = Fresh("absent")]
        BY <1>1, <1>2, <2>4, <3>1, StoreSteps
      <3> QED
        BY <1>2, <2>1, <2>2, <3>2 DEF Stored, Fresh
    <2> QED
      BY <1>1, <2>1, <2>2, <2>3, <2>5, <2>6 DEF MovedFrom, Info
  <1>4. ASSUME NEW f \in File, NEW def \in methodDefs'[f], def \notin methodDefs[f]
        PROVE  MovedFrom(f, def)'
    <2>1. ExtractMethod
      BY <1>1, <1>2, <1>4 DEF FileEntryStep, LookupHit, ScanFailure, ParseFailure, ParseSuccess,
        CallFileEntry, UndefinedAbstractMethod, UnresolvedFile, EndOfLoop, CalleeFailed,
        RegisterSuperclass, AddImport, NoMethodFile, fileState
    <2>2. /\ f = Top.file /\ def = <<arg, scans[arg]>> /\ UNCHANGED scans
          /\ store' = [store EXCEPT ![arg] = Fresh("absent")]
      BY <1>2, <1>4, <2>1 DEF ExtractMethod
    <2>3. ~Stored(arg)' /\ def[1] = arg /\ def[2] = scans'[def[1]]
      <3>1. store'[arg].status = "absent"
        BY <1>2, <2>2 DEF Fresh
      <3>2. def[1] = arg /\ def[2] = scans'[def[1]]
        BY <2>2
      <3>3. UNCHANGED arg
        BY <2>1 DEF ExtractMethod
      <3> QED
        BY <3>1, <3>2, <3>3 DEF Stored
    <2>4. PICK i \in DOMAIN Info(f).methods : Info(f).methods[i].file = arg /\ PastMethod(f, i)'
      BY <1>1, <2>1, <2>2, ExtractedPast
    <2>5. ~Stored(def[1])'
      BY <2>1, <2>3 DEF ExtractMethod
    <2> QED
      BY <1>1, <2>3, <2>4, <2>5 DEF MovedFrom, Info
  <1>5. ASSUME NEW m \in File, IsMethodFile(m)' PROVE ~store'[m].ids
    <2>1. ~store[m].ids
      BY <1>1, <1>5 DEF MovedInv, IsMethodFile, Info
    <2> QED
      BY <1>1, <1>2, <2>1, StoreSteps DEF Fresh
  <1> QED
    BY <1>3, <1>4, <1>5 DEF MovedInv

LEMMA MovedStep ==
  ASSUME TypeOK, LoadInv, ScansInv, MethodsInv, MovedInv, [Next]_vars,
         \A w \in Worlds : MethodFilesApart(w)
  PROVE  MovedInv'
  <1>1. CASE Load
    BY <1>1, MovedLoad
  <1>2. CASE ~Load
    <2>1. /\ UNCHANGED <<world, scans, stack, methodDefs>>
          /\ \A f \in File : Stored(f)' = Stored(f)
      BY <1>2, ScansStay, StageSteps
    <2>2. methodDefs \in [File -> SUBSET (File \X Nat)]
      BY DEF TypeOK, LoaderTypeOK
    <2>3. ASSUME NEW f \in File, NEW def \in methodDefs[f] PROVE MovedFrom(f, def)'
      BY <2>1, <2>2 DEF MovedInv, MovedFrom, PastMethod, Info, IsClass
    <2>4. ASSUME NEW m \in File, IsMethodFile(m)' PROVE ~store'[m].ids
      <3>1. IsMethodFile(m)
        BY <2>1, <2>4 DEF IsMethodFile, Info
      <3>2. ~store[m].ids
        BY <3>1 DEF MovedInv
      <3>3. ASSUME NEW g \in File, ResolveIdentifiersOf(g) PROVE g # m
        BY <3>1, <3>3 DEF ResolveIdentifiersOf, Unresolved, MethodsInv
      <3> QED
        BY <1>2, <3>2, <3>3, StageSteps
    <2> QED
      BY <2>1, <2>3, <2>4 DEF MovedInv
  <1> QED
    BY <1>1, <1>2

\* Identifiers are resolved once: the entry of a file where they are is not erased.
LEMMA ResolvedForGood ==
  ASSUME TypeOK, LoadInv, StageInv, MovedInv, [Next]_vars, NEW f \in File, store[f].ids
  PROVE  store'[f].ids /\ scans'[f] = scans[f]
  <1>1. /\ LoaderTypeOK /\ store \in [File -> Entry] /\ arg \in File /\ scans \in [File -> Nat]
    BY DEF TypeOK, LoaderTypeOK
  <1>2. Stored(f)
    BY DEF StageInv, StageOrder, Parsed, Stored
  <1>3. CASE Load
    <2>1. FileEntryStep /\ phase = "load"
      BY <1>3 DEF Load
    <2>2. ASSUME ExtractMethod PROVE f # arg
      <3>1. stack # <<>> /\ Top.step = "methods" /\ mode = "return"
        BY <2>2 DEF ExtractMethod, Returned
      <3>2. IsMethodFile(arg)
        BY <3>1, MethodCalled DEF LoadInv, IsMethodFile
      <3> QED
        BY <1>1, <3>2 DEF MovedInv
    <2> QED
      BY <1>1, <1>2, <2>1, <2>2, StoreSteps, ScanSteps
  <1>4. CASE ~Load
    BY <1>4, StageSteps
  <1> QED
    BY <1>3, <1>4

LEMMA TypedStep ==
  ASSUME TypeOK, LoadInv, StageInv, MovedInv, TypedInv, [Next]_vars
  PROVE  TypedInv'
  <1>1. /\ store \in [File -> Entry] /\ typed \subseteq File \X Nat
        /\ methodDefs \in [File -> SUBSET (File \X Nat)] /\ scans \in [File -> Nat]
    BY DEF TypeOK, LoaderTypeOK, ExternalTypeOK
  <1>2. \A f \in File : methodDefs[f] \subseteq methodDefs'[f]
    <2>1. CASE Load
      <3>1. CASE NoMethodFile
        BY <1>1, <3>1 DEF NoMethodFile, fileState
      <3>2. CASE ExtractMethod
        BY <1>1, <3>2 DEF ExtractMethod
      <3>3. CASE ~NoMethodFile /\ ~ExtractMethod
        <4>1. methodDefs' = methodDefs
          BY <2>1, <3>3 DEF Load, FileEntryStep, LookupHit, ScanFailure, ParseFailure, ParseSuccess,
            CallFileEntry, UndefinedAbstractMethod, UnresolvedFile, EndOfLoop, CalleeFailed,
            RegisterSuperclass, AddImport, fileState
        <4> QED
          BY <4>1
      <3> QED
        BY <3>1, <3>2, <3>3
    <2> QED
      BY <2>1, StageSteps
  <1>3. ASSUME NEW def \in typed
        PROVE  \/ store'[def[1]].ids /\ def[2] = scans'[def[1]]
               \/ \E h \in File : store'[h].ids /\ def \in methodDefs'[h]
    <2>1. def[1] \in File
      BY <1>1
    <2>2. CASE store[def[1]].ids /\ def[2] = scans[def[1]]
      BY <2>1, <2>2, ResolvedForGood
    <2>3. ASSUME NEW h \in File, store[h].ids, def \in methodDefs[h]
          PROVE  store'[h].ids /\ def \in methodDefs'[h]
      BY <1>2, <2>3, ResolvedForGood
    <2> QED
      BY <2>2, <2>3 DEF TypedInv
  <1>4. ASSUME NEW g \in File, ResolveIdentifiersOf(g), NEW def \in typed', def \notin typed
        PROVE  \/ store'[def[1]].ids /\ def[2] = scans'[def[1]]
               \/ \E h \in File : store'[h].ids /\ def \in methodDefs'[h]
    <2>1. /\ store' = [store EXCEPT ![g].ids = TRUE] /\ UNCHANGED <<scans, methodDefs>>
          /\ def = ThisParse(g) \/ def \in methodDefs[g]
      BY <1>4 DEF ResolveIdentifiersOf
    <2>2. store'[g].ids
      BY <1>1, <2>1 DEF Entry
    <2> QED
      BY <2>1, <2>2 DEF ThisParse
  <1>5. typed' = typed \/ \E g \in File : ResolveIdentifiersOf(g)
    BY StageSteps DEF Load, externalVars
  <1> QED
    BY <1>3, <1>4, <1>5 DEF TypedInv

\* A function's type is registered once, in every program whose method files have no other
\* use, whatever failed before: neither a file that is loaded nor a definition that was
\* moved into a class has been given a type when the identifiers of its file are resolved.
THEOREM TypesRegisteredOnce ==
  ASSUME \A w \in Worlds : MethodFilesApart(w)
  PROVE  Spec => FunctionsRegisteredOnce
  <1> DEFINE Inv == /\ TypeOK /\ LoadInv /\ StageInv /\ ScansInv /\ MethodsInv
                    /\ MovedInv /\ TypedInv
             Once == \A f \in File : store'[f].ids /\ ~store[f].ids =>
                       ({ThisParse(f)} \cup methodDefs[f]) \cap typed = {}
  <1>1. Init => Inv
    <2>1. Init => StageInv /\ MethodsInv /\ MovedInv /\ TypedInv
      BY DEF Init, LoaderInit, ExternalInit, Fresh, StageInv, StageOrder, MethodsInv, MovedInv,
        TypedInv
    <2> QED
      BY <2>1, InitTyped, LoadInvInit, ScansInit
  <1>2. Inv /\ [Next]_vars => Inv'
    BY NextTyped, LoadInvStep, StageStep, ScansStep, MethodsStep, MovedStep, TypedStep
  <1>3. Inv /\ [Next]_vars => [Once]_vars
    <2> SUFFICES ASSUME Inv, [Next]_vars, NEW f \in File, store'[f].ids, ~store[f].ids,
                        NEW def \in {ThisParse(f)} \cup methodDefs[f], def \in typed
                 PROVE  FALSE
      OBVIOUS
    <2>1. world \in Worlds /\ typed \subseteq File \X Nat
          /\ methodDefs \in [File -> SUBSET (File \X Nat)]
      BY DEF TypeOK, LoaderTypeOK, ExternalTypeOK, LoadInv, CallChain
    <2>2. Stored(f)
      <3>1. ~Load
        BY StoreSteps DEF Load, Fresh, TypeOK, LoaderTypeOK
      <3>2. ResolveIdentifiersOf(f)
        BY <3>1, StageSteps
      <3> QED
        BY <3>2 DEF ResolveIdentifiersOf, Unresolved, LoadInv, RootsInStore
    <2>3. ASSUME store[def[1]].ids, def[2] = scans[def[1]] PROVE FALSE
      <3>1. def[1] \in File /\ Stored(def[1])
        BY <2>1, <2>3 DEF StageInv, StageOrder, Parsed, Stored
      <3>2. CASE def = ThisParse(f)
        BY <2>3, <3>2 DEF ThisParse
      <3>3. CASE def \in methodDefs[f]
        BY <3>1, <3>3 DEF MovedInv, MovedFrom
      <3> QED
        BY <3>2, <3>3
    <2>4. ASSUME NEW h \in File, store[h].ids, def \in methodDefs[h] PROVE FALSE
      <3>1. PICK i \in DOMAIN Info(h).methods :
              Info(h).methods[i].file = def[1] /\ ~Stored(def[1])
        BY <2>4 DEF MovedInv, MovedFrom
      <3>2. CASE def = ThisParse(f)
        BY <2>2, <3>1, <3>2 DEF ThisParse
      <3>3. CASE def \in methodDefs[f]
        <4>1. PICK j \in DOMAIN Info(f).methods : Info(f).methods[j].file = def[1]
          BY <3>3 DEF MovedInv, MovedFrom
        <4>2. def[1] # None
          BY <2>1, NamesAssumption
        <4>3. NamedOnlyBy(world, def[1], h, i)
          BY <2>1, <3>1, <4>2 DEF MethodFilesApart, Info
        <4>4. f = h
          BY <4>1, <4>3 DEF NamedOnlyBy, Info
        <4> QED
          BY <2>4, <4>4
      <3> QED
        BY <3>2, <3>3
    <2> QED
      BY <2>3, <2>4 DEF TypedInv
  <1> HIDE DEF Inv
  <1> QED
    BY <1>1, <1>2, <1>3, PTL DEF Spec, FunctionsRegisteredOnce

---------------------------------------------------------------------------
(* What files take for granted of each other: superclasses and imports *)

\* What is asked for by any loop but that over the methods is no method's file.
LEMMA NamedNotMethod ==
  ASSUME TypeOK, LoadInv, phase = "load", mode \in {"enter", "return"}, Top.step # "methods",
         \A w \in Worlds : MethodFilesApart(w)
  PROVE  ~IsMethodFile(arg)
  BY CalledAsMethod DEF LoadInv, IsMethodFile

\* A file that is no method's stays in the AstStore.
LEMMA KeptStays ==
  ASSUME TypeOK, LoadInv, [Next]_vars, NEW g, Kept(g)
  PROVE  Kept(g)'
  <1>1. UNCHANGED world
    BY WorldKept
  <1>2. CASE Load
    <2>1. FileEntryStep /\ phase = "load" /\ LoaderTypeOK
      BY <1>2 DEF Load, TypeOK
    <2>2. ASSUME ExtractMethod PROVE g # arg
      <3>1. stack # <<>> /\ Top.step = "methods" /\ mode = "return"
        BY <2>2 DEF ExtractMethod, Returned
      <3> QED
        BY <3>1, MethodCalled DEF LoadInv, IsMethodFile, Kept
    <2>3. Stored(g)'
      BY <2>1, <2>2, ScanSteps DEF Kept, Stored
    <2> QED
      BY <1>1, <2>3 DEF Kept, IsMethodFile, Info
  <1>3. CASE ~Load
    BY <1>1, <1>3, ScansStay DEF Kept, IsMethodFile, Info
  <1> QED
    BY <1>2, <1>3

\* file_entry leaves an entry as it is, or makes it a new one.
LEMMA EntryLoad ==
  ASSUME TypeOK, Load, NEW f \in File
  PROVE  store'[f] = store[f] \/ (~store'[f].ids /\ store'[f].gen = FALSE)
  <1>1. LoaderTypeOK /\ FileEntryStep /\ store \in [File -> Entry] /\ arg \in File
    BY DEF Load, TypeOK, LoaderTypeOK
  <1>2. \/ UNCHANGED store
        \/ \E s : store' = [store EXCEPT ![arg] = Fresh(s)]
    BY <1>1, StoreSteps
  <1>3. store'[f] = store[f] \/ \E s : store'[f] = Fresh(s)
    BY <1>1, <1>2
  <1>4. ASSUME NEW s, store'[f] = Fresh(s) PROVE ~store'[f].ids /\ store'[f].gen = FALSE
    BY <1>4 DEF Fresh
  <1> QED
    BY <1>3, <1>4

\* Analysed files stay so, and no others become so, while files are loaded.
LEMMA AnalysedLoad ==
  ASSUME TypeOK, LoadInv, StageInv, MovedInv, Load, NEW f \in File
  PROVE  store'[f].gen = store[f].gen
  <1>1. store[f].gen \in BOOLEAN /\ (store[f].gen => store[f].ids)
    BY DEF TypeOK, LoaderTypeOK, Entry, StageInv, StageOrder
  <1>2. store[f].ids => store'[f].ids
    BY ResolvedForGood DEF Next
  <1>3. ASSUME ~store'[f].ids PROVE store[f].gen = FALSE
    BY <1>1, <1>2, <1>3
  <1> QED
    BY <1>3, EntryLoad

\* The call that extracts a method, or any other, is for a file that is not analysed.
LEMMA CallsLoad ==
  ASSUME TypeOK, LoadInv, StageInv, MovedInv, NamesInv, Load, NEW k \in DOMAIN stack'
  PROVE  ~store'[stack'[k].file].gen /\ ~store'[stack'[k].scope].gen
  <1>1. LoaderTypeOK /\ FileEntryStep /\ store \in [File -> Entry] /\ arg \in File
    BY DEF Load, TypeOK, LoaderTypeOK
  <1>2. \A j \in DOMAIN stack : /\ ~store[stack[j].file].gen /\ ~store[stack[j].scope].gen
                                /\ stack[j].file \in File /\ stack[j].scope \in File
    BY <1>1, DomainOfStack DEF NamesInv, Frame
  <1>3. CASE k \in DOMAIN stack /\ stack'[k].file = stack[k].file
                                /\ stack'[k].scope = stack[k].scope
    BY <1>2, <1>3, AnalysedLoad
  <1>4. CASE ParseSuccess /\ stack'[k].file = arg /\ stack'[k].scope = ScopeOf(arg)
    <2>1. ~store'[arg].gen
      BY <1>1, <1>4 DEF ParseSuccess, Fresh
    <2>2. ScopeOf(arg) = arg \/ (stack # <<>> /\ ScopeOf(arg) = Top.scope)
      BY DEF ScopeOf
    <2>3. stack # <<>> => ~store'[Top.scope].gen
      BY <1>1, <1>2, AnalysedLoad, DomainOfStack DEF Top
    <2> QED
      BY <1>4, <2>1, <2>2, <2>3
  <1> QED
    BY <1>1, <1>3, <1>4, FrameSteps

\* Imports are added to the scope of a call, of files that stay.
LEMMA ImportsLoad ==
  ASSUME TypeOK, LoadInv, StageInv, MovedInv, NamesInv, Load, NEW f \in File,
         \A w \in Worlds : MethodFilesApart(w)
  PROVE  /\ \A g \in scopeImports'[f] : Kept(g)'
         /\ store'[f].gen => scopeImports'[f] = scopeImports[f]
  <1>1. /\ FileEntryStep /\ phase = "load" /\ store \in [File -> Entry] /\ arg \in File
        /\ scopeImports \in [File -> SUBSET File] /\ LoaderTypeOK
    BY DEF Load, TypeOK, LoaderTypeOK
  <1>2. \A g \in scopeImports[f] : Kept(g)'
    BY KeptStays DEF NamesInv, Next
  <1>3. CASE AddImport
    <2>1. /\ stack # <<>> /\ Top.step # "methods" /\ mode = "return" /\ Parsed(arg)
          /\ scopeImports' = [scopeImports EXCEPT ![Top.scope] = @ \cup {arg}]
      BY <1>3 DEF AddImport, Returned
    <2>2. Kept(arg)
      BY <1>1, <2>1, NamedNotMethod DEF Kept, Parsed, Stored
    <2>3. Kept(arg)'
      BY <1>3, <2>2, KeptStays DEF Next, AddImport
    <2>4. UNCHANGED arg
      BY <1>3 DEF AddImport
    <2>5. scopeImports'[f] = scopeImports[f]
            \/ (f = Top.scope /\ scopeImports'[f] = scopeImports[f] \cup {arg})
      BY <1>1, <2>1
    <2>6. ~store'[Top.scope].gen
      <3>1. Len(stack) \in DOMAIN stack /\ Top = stack[Len(stack)] /\ Top.scope \in File
        BY <1>1, <2>1, DomainOfStack DEF Top, Frame
      <3> QED
        BY <3>1, AnalysedLoad DEF NamesInv
    <2>7. \A g \in scopeImports'[f] : g \in scopeImports[f] \/ g = arg
      BY <2>5
    <2>8. \A g : g = arg => Kept(g)'
      BY <2>3, <2>4
    <2> QED
      BY <1>2, <2>5, <2>6, <2>7, <2>8
  <1>4. CASE ~AddImport
    <2>1. UNCHANGED scopeImports
      BY <1>1, <1>4 DEF FileEntryStep, LookupHit, ScanFailure, ParseFailure, ParseSuccess,
        CallFileEntry, UndefinedAbstractMethod, UnresolvedFile, EndOfLoop, CalleeFailed,
        RegisterSuperclass, NoMethodFile, ExtractMethod, fileState
    <2> QED
      BY <1>2, <2>1
  <1> QED
    BY <1>3, <1>4

\* The superclasses that are registered, for calls in progress, are files that stay.
LEMMA RegisteredLoad ==
  ASSUME TypeOK, LoadInv, StageInv, MovedInv, NamesInv, Load, NEW f \in File,
         \A w \in Worlds : MethodFilesApart(w)
  PROVE  /\ \A g \in Supers(f)' : Kept(g)'
         /\ store'[f].gen => \A i : <<f, i>> \in superDefs' <=> <<f, i>> \in superDefs
  <1>1. /\ FileEntryStep /\ phase = "load" /\ store \in [File -> Entry] /\ arg \in File
        /\ LoaderTypeOK /\ UNCHANGED world
    BY WorldKept DEF Load, Next, TypeOK, LoaderTypeOK
  <1>2. ASSUME NEW g \in Supers(f) PROVE Kept(g)'
    BY <1>2, KeptStays DEF NamesInv, Next
  <1>3. CASE UNCHANGED superDefs
    BY <1>1, <1>2, <1>3 DEF Supers, Info
  <1>4. CASE RegisterSuperclass /\ IsClass(arg)
    <2>1. /\ stack # <<>> /\ Top.step = "supers" /\ mode = "return" /\ Parsed(arg)
          /\ superDefs' = superDefs \cup {<<Top.file, Top.i>>} /\ UNCHANGED arg
      BY <1>4 DEF RegisterSuperclass, Returned
    <2>2. Kept(arg)
      BY <1>1, <2>1, NamedNotMethod DEF Kept, Parsed, Stored
    <2>3. Kept(arg)'
      BY <2>1, <2>2, KeptStays DEF Next
    <2>4. Len(stack) \in DOMAIN stack /\ Top = stack[Len(stack)] /\ Top.file \in File
      BY <1>1, <2>1, DomainOfStack DEF Top, Frame
    <2>5. ~store'[Top.file].gen
      BY <2>4, AnalysedLoad DEF NamesInv
    <2>6. Info(Top.file).supers[Top.i] = arg
      BY <2>1 DEF LoadInv, CallChain, Target, NamedFiles, Named
    <2>7. ASSUME NEW i \in DOMAIN Info(f).supers, <<f, i>> \in superDefs'
          PROVE  Kept(Info(f).supers[i])'
      <3>1. CASE <<f, i>> \in superDefs
        <4>1. Info(f).supers[i] \in Supers(f)
          BY <3>1 DEF Supers
        <4>2. \A g \in Supers(f) : Kept(g)'
          BY <1>2
        <4>3. UNCHANGED Info(f)
          BY <1>1 DEF Info
        <4> QED
          BY <4>1, <4>2, <4>3
      <3>2. CASE f = Top.file /\ i = Top.i
        <4>1. Info(f).supers[i] = arg
          BY <2>6, <3>2
        <4>2. Info(f)'.supers[i] = arg'
          BY <1>1, <2>1, <4>1 DEF Info
        <4> QED
          BY <2>3, <4>2
      <3> QED
        BY <2>1, <2>7, <3>1, <3>2
    <2>8. \A g \in Supers(f)' : Kept(g)'
      BY <1>1, <2>7 DEF Supers, Info
    <2> QED
      BY <2>1, <2>5, <2>8
  <1> QED
    BY <1>1, <1>3, <1>4 DEF FileEntryStep, LookupHit, ScanFailure, ParseFailure, ParseSuccess,
      CallFileEntry, UndefinedAbstractMethod, UnresolvedFile, EndOfLoop, CalleeFailed,
      RegisterSuperclass, AddImport, NoMethodFile, ExtractMethod, fileState

\* A superclass is registered when the loop has come past it, or the call has failed.
LEMMA SupersLoad ==
  ASSUME TypeOK, LoadInv, SilentInv, NamesInv, Load, ~reported',
         \A w \in Worlds : MethodFilesApart(w),
         NEW f \in File, Stored(f)', IsClass(f), NEW i \in DOMAIN Info(f).supers
  PROVE  SuperRegistered(f, i)' \/ SuperExpected(f, i)'
  <1>1. /\ FileEntryStep /\ phase = "load" /\ store \in [File -> Entry] /\ arg \in File
        /\ LoaderTypeOK /\ UNCHANGED world
    BY WorldKept DEF Load, Next, TypeOK, LoaderTypeOK
  <1>2. ~reported
    BY <1>1, SoundSteps
  <1>3. /\ Info(f).supers \in Seq(FileOrNone) /\ i \in 1..Len(Info(f).supers)
        /\ Len(Info(f).supers) \in Nat
    <2>1. Info(f).supers \in Seq(FileOrNone)
      BY <1>1 DEF LoaderTypeOK, World, FileInfo, Info
    <2> QED
      BY <2>1
  <1>4. ASSUME SuperRegistered(f, i) PROVE SuperRegistered(f, i)'
    <2>1. superDefs \subseteq superDefs'
      BY <1>1 DEF FileEntryStep, LookupHit, ScanFailure, ParseFailure, ParseSuccess, CallFileEntry,
        UndefinedAbstractMethod, UnresolvedFile, EndOfLoop, CalleeFailed, RegisterSuperclass,
        AddImport, NoMethodFile, ExtractMethod, fileState
    <2>2. \A g : Kept(g) => Kept(g)'
      BY KeptStays DEF Next
    <2> QED
      BY <1>1, <1>4, <2>1, <2>2 DEF SuperRegistered, Info
  <1>5. CASE ParseSuccess /\ f = arg
    <2>1. PICK t : /\ t.file = arg /\ t.step = "supers" /\ t.i = 1
                   /\ stack' = Append(stack, t)
      BY <1>5 DEF ParseSuccess
    <2>2. stack \in Seq(Frame) /\ stack' \in Seq(Frame)
      BY <1>1, FileEntryTyped DEF LoaderTypeOK
    <2>3. Len(stack) + 1 \in DOMAIN stack' /\ stack'[Len(stack) + 1] = t
      BY <2>1, <2>2
    <2> QED
      BY <1>3, <1>5, <2>1, <2>3 DEF SuperExpected
  <1>6. CASE ~(ParseSuccess /\ f = arg)
    <2>1. Stored(f)
      <3>1. ~ScanFailure /\ ~ParseFailure
        BY DEF ScanFailure, ParseFailure
      <3> QED
        BY <1>1, <1>6, <3>1, StoreSteps DEF Stored, Fresh
    <2>2. SuperRegistered(f, i) \/ SuperExpected(f, i)
      BY <1>2, <2>1 DEF NamesInv
    <2>3. ASSUME NEW k \in DOMAIN stack, stack[k].file = f, stack[k].step = "supers",
                 stack[k].i <= i
          PROVE  SuperRegistered(f, i)' \/ SuperExpected(f, i)'
      <3>1. ASSUME k \in DOMAIN stack', stack'[k] = stack[k] PROVE SuperExpected(f, i)'
        BY <2>3, <3>1 DEF SuperExpected
      <3>2. k \in 1..Len(stack) /\ Len(stack) \in Nat /\ stack # <<>> /\ Top = stack[Len(stack)]
        BY <1>1, <2>3, DomainOfStack DEF Top
      <3>3. ASSUME k # Len(stack) \/ Top.step # "supers",
                   NEW t, stack' = Append(Below, t)
            PROVE  SuperExpected(f, i)'
        BY <1>1, <2>3, <3>1, <3>2, <3>3, TopReplaced
      <3>4. CASE LookupHit \/ CallFileEntry
        BY <2>3, <3>1, <3>4 DEF LookupHit, CallFileEntry
      <3>5. CASE ParseSuccess
        <4>1. PICK t : stack' = Append(stack, t)
          BY <3>5 DEF ParseSuccess
        <4>2. stack \in Seq(Frame) /\ stack' \in Seq(Frame)
          BY <1>1, FileEntryTyped DEF LoaderTypeOK
        <4>3. Len(stack') = Len(stack) + 1 /\ stack'[k] = stack[k]
          BY <3>2, <4>1, <4>2
        <4>4. k \in DOMAIN stack'
          BY <3>2, <4>2, <4>3
        <4> QED
          BY <3>1, <4>3, <4>4
      <3>6. CASE UndefinedAbstractMethod \/ AddImport \/ ExtractMethod
        <4>1. Top.step # "supers" /\ \E ok : Advance(ok)
          BY <3>6 DEF UndefinedAbstractMethod, AddImport, ExtractMethod, Returned
        <4> QED
          BY <3>3, <4>1 DEF Advance
      <3>7. CASE EndOfLoop
        <4>1. k # Len(stack)
          <5>1. ASSUME k = Len(stack) PROVE Top.i \in Nat /\ Top.i <= Len(NamedFiles(Top))
            <6>1. NamedFiles(Top) = Info(f).supers
              BY <2>3, <3>2, <5>1 DEF NamedFiles, Named, Info
            <6>2. Top.i \in Nat
              BY <1>1, <3>2, DomainOfStack DEF Frame
            <6> QED
              BY <1>3, <2>3, <3>2, <5>1, <6>1, <6>2
          <5>2. Top.i > Len(NamedFiles(Top)) /\ Len(NamedFiles(Top)) \in Nat
            <6>1. Top \in Frame
              BY <1>1, <3>2, StackTyped
            <6>2. NamedFiles(Top) \in Seq(FileOrNone)
              BY <1>1, <6>1, TargetTyped
            <6> QED
              BY <3>7, <6>2 DEF EndOfLoop
          <5> QED
            BY <5>1, <5>2
        <4>2. CASE stack' = Below
          <5>1. /\ Below \in Seq(Frame) /\ Len(Below) = Len(stack) - 1
                /\ \A j \in 1..Len(Below) : Below[j] = stack[j]
            BY <1>1, <3>2, StackTyped
          <5>2. k \in 1..Len(Below)
            BY <3>2, <4>1, <5>1
          <5>3. k \in DOMAIN stack' /\ stack'[k] = stack[k]
            BY <4>2, <5>1, <5>2
          <5> QED
            BY <3>1, <5>3
        <4> QED
          BY <3>3, <3>7, <4>1, <4>2 DEF EndOfLoop
      <3>8. CASE RegisterSuperclass /\ IsClass(arg)
        <4>1. /\ Top.step = "supers" /\ mode = "return" /\ Parsed(arg) /\ Advance(TRUE)
              /\ superDefs' = superDefs \cup {<<Top.file, Top.i>>} /\ UNCHANGED arg
          BY <3>8 DEF RegisterSuperclass, Returned
        <4>2. CASE k # Len(stack)
          BY <3>3, <4>1, <4>2 DEF Advance
        <4>3. CASE k = Len(stack) /\ stack[k].i = i
          <5>1. Info(f).supers[i] = arg
            <6>1. arg = NamedFiles(Top)[Top.i]
              BY <3>2, <4>1 DEF LoadInv, CallChain, Target
            <6>2. NamedFiles(Top) = Info(f).supers
              BY <2>3, <3>2, <4>1, <4>3 DEF NamedFiles, Named, Info
            <6> QED
              BY <3>2, <4>3, <6>1, <6>2
          <5>2. Kept(arg)
            BY <1>1, <4>1, NamedNotMethod DEF Kept, Parsed, Stored
          <5>3. Kept(arg)' /\ UNCHANGED arg
            BY <4>1, <5>2, KeptStays DEF Next
          <5>4. <<f, i>> \in superDefs'
            BY <2>3, <3>2, <4>1, <4>3
          <5>5. Info(f)'.supers[i] = arg
            BY <1>1, <5>1 DEF Info
          <5> QED
            BY <5>3, <5>4, <5>5 DEF SuperRegistered
        <4>4. CASE k = Len(stack) /\ stack[k].i # i
          <5>1. PICK t : /\ t.file = Top.file /\ t.step = Top.step /\ t.i = Top.i + 1
                         /\ stack' = Append(Below, t)
            BY <4>1 DEF Advance
          <5>2. k \in DOMAIN stack' /\ stack'[k] = t
            BY <1>1, <3>2, <4>4, <5>1, TopReplaced
          <5>3. stack[k].i \in Nat
            BY <1>1, <2>3, DomainOfStack DEF Frame
          <5>4. t.i <= i
            BY <1>3, <2>3, <3>2, <4>4, <5>1, <5>3
          <5> QED
            BY <2>3, <3>2, <4>4, <5>1, <5>2, <5>4 DEF SuperExpected
        <4> QED
          BY <4>2, <4>3, <4>4
      <3> QED
        BY <1>1, <3>4, <3>5, <3>6, <3>7, <3>8, SoundSteps
    <2> QED
      BY <1>4, <2>2, <2>3 DEF SuperExpected
  <1> QED
    BY <1>5, <1>6

\* An analysed class is not being loaded, so its superclasses have been registered.
LEMMA AnalysedSupers ==
  ASSUME StageInv, NamesInv, ~reported, NEW f \in File, store[f].gen, IsClass(f),
         NEW i \in DOMAIN Info(f).supers
  PROVE  SuperRegistered(f, i)
  <1>1. Stored(f)
    BY DEF StageInv, StageOrder, Parsed, Stored
  <1>2. ~SuperExpected(f, i)
    BY DEF NamesInv, SuperExpected
  <1> QED
    BY <1>1, <1>2 DEF NamesInv

\* Analysed files stay so while files are loaded, and what they name with them.
LEMMA NamesLoad ==
  ASSUME TypeOK, LoadInv, StageInv, MovedInv, SilentInv, NamesInv, Load,
         \A w \in Worlds : MethodFilesApart(w)
  PROVE  NamesInv'
  <1>1. UNCHANGED world
    BY WorldKept DEF Next
  <1>2. reported => reported'
    BY SoundSteps DEF Load
  <1>3. scopeImports \in [File -> SUBSET File]
    BY DEF TypeOK, LoaderTypeOK
  <1>4. ASSUME ~reported', NEW f \in File, Stored(f)', IsClass(f)',
               NEW i \in DOMAIN Info(f)'.supers
        PROVE  SuperRegistered(f, i)' \/ SuperExpected(f, i)'
    BY <1>1, <1>4, SupersLoad DEF IsClass, Info
  <1>5. ASSUME ~reported', NEW f \in File, store'[f].gen
        PROVE  /\ \A g \in scopeImports'[f] : store'[g].gen
               /\ IsClass(f)' => \A i \in DOMAIN Info(f)'.supers : store'[Info(f)'.supers[i]].gen
    <2>1. ~reported /\ store[f].gen /\ scopeImports'[f] = scopeImports[f]
      BY <1>2, <1>5, AnalysedLoad, ImportsLoad
    <2>2. \A g \in scopeImports[f] : g \in File /\ store[g].gen
      BY <1>3, <2>1 DEF NamesInv
    <2>3. ASSUME IsClass(f), NEW i \in DOMAIN Info(f).supers
          PROVE  Info(f).supers[i] \in File /\ store[Info(f).supers[i]].gen
      BY <2>1, <2>3, AnalysedSupers DEF NamesInv, SuperRegistered, Kept
    <2> QED
      BY <1>1, <2>1, <2>2, <2>3, AnalysedLoad DEF IsClass, Info
  <1> QED
    BY <1>4, <1>5, CallsLoad, ImportsLoad, RegisteredLoad DEF NamesInv

\* All that an analysed file names is analysed with it, or was before.
LEMMA NamesStep ==
  ASSUME TypeOK, LoadInv, StageInv, MovedInv, SilentInv, NamesInv, [Next]_vars,
         \A w \in Worlds : MethodFilesApart(w)
  PROVE  NamesInv'
  <1>1. CASE Load
    BY <1>1, NamesLoad
  <1>2. CASE ~Load
    <2>1. /\ UNCHANGED <<world, stack, scopeImports, superDefs>> /\ (reported => reported')
          /\ \A f \in File : Stored(f)' = Stored(f)
          /\ \A f \in File : store[f].gen => store'[f].gen
      BY <1>2, StageSteps, ScansStay
    <2>2. /\ \A f \in File : Info(f)' = Info(f) /\ IsClass(f)' = IsClass(f)
          /\ scopeImports \in [File -> SUBSET File]
      BY <2>1 DEF Info, IsClass, TypeOK, LoaderTypeOK
    <2>3. \A g : Kept(g) => Kept(g)'
      BY KeptStays
    <2>4. \A f \in File : \A g \in scopeImports'[f] : Kept(g)'
      BY <2>1, <2>3 DEF NamesInv
    <2>9. \A f \in File : \A g \in Supers(f)' : Kept(g)'
      BY <2>1, <2>2, <2>3 DEF NamesInv, Supers
    <2>5. \/ \A f \in File : store'[f].gen = store[f].gen
          \/ /\ GenerateTypeConstraints /\ phase = "constraints" /\ stack = <<>>
             /\ \A f \in File : store'[f].gen = (store[f].gen \/ f \in rootFiles)
      BY <1>2, StageSteps DEF LoadInv, CallChain
    <2>6. ASSUME NEW k \in DOMAIN stack'
          PROVE  ~store'[stack'[k].file].gen /\ ~store'[stack'[k].scope].gen
      <3>1. stack # <<>> /\ k \in DOMAIN stack
        BY <2>1, <2>6
      <3>2. stack[k].file \in File /\ stack[k].scope \in File
        BY <3>1, DomainOfStack DEF TypeOK, Frame
      <3> QED
        BY <2>1, <2>5, <3>1, <3>2 DEF NamesInv
    <2>7. ASSUME ~reported', NEW f \in File, Stored(f)', IsClass(f)',
                 NEW i \in DOMAIN Info(f)'.supers
          PROVE  SuperRegistered(f, i)' \/ SuperExpected(f, i)'
      <3>1. SuperRegistered(f, i) \/ SuperExpected(f, i)
        BY <2>1, <2>2, <2>7 DEF NamesInv
      <3> QED
        BY <2>1, <2>2, <2>3, <3>1 DEF SuperRegistered, SuperExpected
    <2>8. ASSUME ~reported', NEW f \in File, store'[f].gen
          PROVE  /\ \A g \in scopeImports'[f] : store'[g].gen
                 /\ IsClass(f)' => \A i \in DOMAIN Info(f)'.supers :
                                     store'[Info(f)'.supers[i]].gen
      <3>1. ~reported
        BY <2>1, <2>8
      <3>2. CASE store[f].gen
        <4>1. \A g \in scopeImports[f] : g \in File /\ store[g].gen
          BY <2>2, <3>1, <3>2 DEF NamesInv
        <4>2. ASSUME IsClass(f), NEW i \in DOMAIN Info(f).supers
              PROVE  Info(f).supers[i] \in File /\ store[Info(f).supers[i]].gen
          BY <3>1, <3>2, <4>2, AnalysedSupers DEF NamesInv, SuperRegistered, Kept
        <4> QED
          BY <2>1, <2>2, <4>1, <4>2
      <3>3. CASE ~store[f].gen
        <4>1. /\ GenerateTypeConstraints /\ phase = "constraints" /\ stack = <<>>
              /\ \A g \in File : store'[g].gen = (store[g].gen \/ g \in rootFiles)
              /\ f \in rootFiles
          BY <2>5, <2>8, <3>3
        <4>2. ASSUME NEW g, Kept(g) PROVE store'[g].gen
          <5>1. g \in File /\ (store[g].gen \/ g \in rootFiles)
            BY <3>1, <4>2 DEF Kept, SilentInv, SoundEntry
          <5> QED
            BY <4>1, <5>1
        <4>3. \A g \in scopeImports[f] : Kept(g)
          BY DEF NamesInv
        <4>4. ASSUME IsClass(f), NEW i \in DOMAIN Info(f).supers PROVE Kept(Info(f).supers[i])
          <5>1. Stored(f)
            BY <4>1 DEF LoadInv, RootsInStore
          <5>2. DOMAIN stack = {}
            BY <4>1
          <5> QED
            BY <3>1, <4>4, <5>1, <5>2 DEF NamesInv, SuperRegistered, SuperExpected
        <4> QED
          BY <2>1, <2>2, <4>2, <4>3, <4>4
      <3> QED
        BY <3>2, <3>3
    <2> QED
      BY <2>4, <2>6, <2>7, <2>8, <2>9 DEF NamesInv
  <1> QED
    BY <1>1, <1>2

\* Schemes are instantiated when all identifiers of the visit have been resolved.
LEMMA SchemesStep ==
  ASSUME TypeOK, LoadInv, StageInv, MovedInv, SchemesInv, [Next]_vars, reported => reported'
  PROVE  SchemesInv'
  <1> SUFFICES ASSUME ~reported', NEW f \in File, Info(f)'.schemes
               PROVE  /\ store'[f].ids => f \in instantiated'
                                            \/ (phase' = "ids" /\ f \in newSchemes')
                      /\ store'[f].gen => f \in instantiated'
    BY DEF SchemesInv
  <1>1. Info(f).schemes
    BY WorldKept DEF Info
  <1>2. /\ store[f].ids => f \in instantiated \/ (phase = "ids" /\ f \in newSchemes)
        /\ store[f].gen => f \in instantiated
    BY <1>1 DEF SchemesInv
  <1>3. CASE Load
    <2>1. /\ LoaderTypeOK /\ FileEntryStep /\ phase = "load"
          /\ UNCHANGED <<instantiated, newSchemes, phase>>
      BY <1>3 DEF Load, visitVars, TypeOK
    <2>2. store'[f].ids => store[f].ids
      BY <1>3, EntryLoad
    <2>3. store'[f].gen => store[f].gen
      BY <1>3, AnalysedLoad
    <2> QED
      BY <1>2, <2>1, <2>2, <2>3
  <1>4. CASE ResolvedIdentifiers
    <2>1. /\ phase = "ids" /\ instantiated' = instantiated \cup newSchemes /\ UNCHANGED store
      BY <1>4 DEF ResolvedIdentifiers, fileState
    <2> QED
      BY <1>2, <2>1
  <1>5. ASSUME NEW g \in File, ResolveIdentifiersOf(g)
        PROVE  /\ store'[f].ids => f \in instantiated' \/ (phase' = "ids" /\ f \in newSchemes')
               /\ store'[f].gen => f \in instantiated'
    <2>1. /\ store' = [store EXCEPT ![g].ids = TRUE] /\ phase = "ids"
          /\ newSchemes' = IF Info(g).schemes THEN newSchemes \cup {g} ELSE newSchemes
          /\ UNCHANGED <<phase, instantiated>>
      BY <1>5 DEF ResolveIdentifiersOf
    <2>2. store'[f].gen = store[f].gen /\ (store'[f].ids => store[f].ids \/ f = g)
      BY <2>1 DEF TypeOK, LoaderTypeOK, Entry
    <2> QED
      BY <1>1, <1>2, <2>1, <2>2
  <1>6. CASE GenerateTypeConstraints
    <2>1. /\ phase = "constraints" /\ UNCHANGED <<instantiated, newSchemes>>
          /\ store' = [g \in File |-> IF g \in rootFiles THEN [store[g] EXCEPT !.gen = TRUE]
                                                         ELSE store[g]]
      BY <1>6 DEF GenerateTypeConstraints, visitVars
    <2>2. store'[f].ids = store[f].ids /\ (store'[f].gen => store[f].gen \/ f \in rootFiles)
      BY <2>1 DEF TypeOK, LoaderTypeOK, Entry
    <2>3. f \in rootFiles => store[f].ids
      BY <2>1 DEF StageInv
    <2> QED
      BY <1>2, <2>1, <2>2, <2>3
  <1>7. CASE ResolveTypeImports
    <2>1. phase = "imports" /\ store' = [store EXCEPT ![rootFile].imports = TRUE]
          /\ UNCHANGED instantiated
      BY <1>7 DEF ResolveTypeImports
    <2>2. store'[f].ids = store[f].ids /\ store'[f].gen = store[f].gen
      BY <2>1 DEF TypeOK, LoaderTypeOK, VisitTypeOK, Entry
    <2> QED
      BY <1>2, <2>1, <2>2
  <1>8. CASE Loaded /\ ~Load
    <2>1. phase = "load" /\ UNCHANGED instantiated
      BY <1>8 DEF Loaded, visitVars
    <2>2. store'[f].ids = store[f].ids /\ store'[f].gen = store[f].gen
      BY <1>8, <2>1, StageSteps
    <2> QED
      BY <1>2, <2>1, <2>2
  <1>9. CASE LocateRootIdentifiers \/ VisitKnownFile \/ VisitNewFile \/ Finish
    BY <1>2, <1>9 DEF LocateRootIdentifiers, VisitKnownFile, VisitNewFile, Finish, loaderVars,
      fileState, visitVars
  <1>10. CASE Resolve \/ Unified \/ UNCHANGED vars
    BY <1>2, <1>10 DEF Resolve, Unified, vars, loaderVars, fileState, visitVars
  <1>11. ASSUME NEW p \in Fn, UnifyOne(p)
         PROVE  UNCHANGED <<store, instantiated, newSchemes, phase>>
    BY <1>11 DEF UnifyOne, loaderVars, fileState, visitVars
  <1> QED
    BY <1>2, <1>3, <1>4, <1>5, <1>6, <1>7, <1>8, <1>9, <1>10, <1>11 DEF Next, Stopped

\* All that this module and App_proofs show of the states of the program.
SoundInv ==
  /\ TypeOK /\ LoadInv /\ StageInv /\ ScansInv /\ MethodsInv /\ MovedInv
  /\ SilentInv /\ NamesInv /\ SchemesInv

LEMMA SoundAlways ==
  ASSUME \A w \in Worlds : MethodFilesApart(w)
  PROVE  Spec => []SoundInv
  <1>1. Init => SoundInv
    <2>1. ASSUME Init PROVE StageInv /\ MethodsInv /\ MovedInv /\ NamesInv /\ SchemesInv
      <3>1. stack = <<>> /\ DOMAIN stack = {}
        BY <2>1 DEF Init, LoaderInit
      <3>2. \A f \in File : scopeImports[f] = {} /\ Supers(f) = {}
        BY <2>1 DEF Init, LoaderInit, Supers
      <3> QED
        BY <2>1, <3>1, <3>2 DEF Init, LoaderInit, Fresh, StageInv, StageOrder, MethodsInv, MovedInv,
          NamesInv, SchemesInv, Stored
    <2> QED
      BY <2>1, InitTyped, LoadInvInit, ScansInit, SilentInit DEF SoundInv
  <1>2. SoundInv /\ [Next]_vars => SoundInv'
    <2> SUFFICES ASSUME SoundInv, [Next]_vars PROVE SoundInv'
      OBVIOUS
    <2>1. reported => reported'
      BY SoundSteps, StageSteps DEF Load, SoundInv
    <2> QED
      BY <2>1, NextTyped, LoadInvStep, StageStep, ScansStep, MethodsStep, MovedStep, SilentStep,
        NamesStep, SchemesStep DEF SoundInv
  <1> QED
    BY <1>1, <1>2, PTL DEF Spec

\* What the constraint generator takes for granted of the files around the one at hand is
\* so, whichever visit loaded and resolved them, in every program whose method files have
\* no other use: as long as nothing was reported, the superclasses of an analysed class
\* are registered and resolved, and the types that an analysed file imports are defined.
THEOREM GeneratorAssumptions ==
  ASSUME \A w \in Worlds : MethodFilesApart(w)
  PROVE  Spec => []AssumptionsMet
  <1>1. SoundInv => AssumptionsMet
    <2> SUFFICES ASSUME SoundInv, ~reported, NEW f \in File, store[f].gen
                 PROVE  /\ IsClass(f) => \A i \in DOMAIN Info(f).supers :
                             <<f, i>> \in superDefs /\ store[Info(f).supers[i]].ids
                        /\ \A g \in scopeImports[f] :
                             store[g].ids /\ (Info(g).schemes => g \in instantiated)
      BY DEF AssumptionsMet, SuperclassesRegistered, VisibleTypesDefined
    <2> USE DEF SoundInv
    <2>1. \A g \in File : store[g].gen => store[g].ids
      BY DEF StageInv, StageOrder
    <2>2. ASSUME IsClass(f), NEW i \in DOMAIN Info(f).supers
          PROVE  <<f, i>> \in superDefs /\ store[Info(f).supers[i]].ids
      <3>1. SuperRegistered(f, i) /\ store[Info(f).supers[i]].gen
        BY <2>2, AnalysedSupers DEF NamesInv
      <3> QED
        BY <2>1, <3>1 DEF SuperRegistered, Kept
    <2>3. ASSUME NEW g \in scopeImports[f]
          PROVE  store[g].ids /\ (Info(g).schemes => g \in instantiated)
      <3>1. g \in File /\ store[g].gen
        BY DEF NamesInv, TypeOK, LoaderTypeOK
      <3> QED
        BY <2>1, <3>1 DEF SchemesInv
    <2> QED
      BY <2>2, <2>3
  <1> QED
    BY <1>1, SoundAlways, PTL

\* What an earlier visit has analysed is not taken back, and neither is what it was analysed
\* with, in every program whose method files have no other use: imports, methods and
\* superclasses are added for calls in progress only, which are for files that are not
\* analysed yet, and the only entries that are erased are those of methods' files.
THEOREM NeverTakenBack ==
  ASSUME \A w \in Worlds : MethodFilesApart(w)
  PROVE  Spec => AnalysedForGood
  <1> DEFINE Stands(f) ==
        /\ store'[f].gen
        /\ scopeImports'[f] = scopeImports[f] /\ methodDefs'[f] = methodDefs[f]
        /\ \A i \in DOMAIN Info(f).supers : <<f, i>> \in superDefs' <=> <<f, i>> \in superDefs
        /\ \A g \in UsedBy(f) : store'[g].status = store[g].status
  <1>1. SoundInv /\ [Next]_vars => [\A f \in File : store[f].gen => Stands(f)]_vars
    <2> SUFFICES ASSUME SoundInv, [Next]_vars, NEW f \in File, store[f].gen
                 PROVE  Stands(f)
      OBVIOUS
    <2> USE DEF SoundInv
    <2>1. ASSUME NEW g \in UsedBy(f) PROVE Kept(g)
      BY <2>1 DEF NamesInv, UsedBy
    <2>2. CASE Load
      <3>1. /\ FileEntryStep /\ phase = "load" /\ store \in [File -> Entry] /\ arg \in File
            /\ methodDefs \in [File -> SUBSET (File \X Nat)] /\ LoaderTypeOK
        BY <2>2 DEF Load, TypeOK, LoaderTypeOK
      <3>2. store'[f].gen
        BY <2>2, AnalysedLoad
      <3>3. scopeImports'[f] = scopeImports[f]
        BY <2>2, <3>2, ImportsLoad
      <3>4. \A i : <<f, i>> \in superDefs' <=> <<f, i>> \in superDefs
        BY <2>2, <3>2, RegisteredLoad
      <3>5. methodDefs'[f] = methodDefs[f]
        <4>1. CASE ExtractMethod
          <5>1. Len(stack) \in DOMAIN stack /\ Top = stack[Len(stack)]
            BY <3>1, <4>1, DomainOfStack DEF ExtractMethod, Returned, Top
          <5>2. f # Top.file
            BY <5>1 DEF NamesInv
          <5> QED
            BY <3>1, <4>1, <5>2 DEF ExtractMethod
        <4>2. CASE ~ExtractMethod
          BY <3>1, <4>2 DEF FileEntryStep, LookupHit, ScanFailure, ParseFailure, ParseSuccess,
            CallFileEntry, UndefinedAbstractMethod, UnresolvedFile, EndOfLoop, CalleeFailed,
            RegisterSuperclass, AddImport, NoMethodFile, fileState
        <4> QED
          BY <4>1, <4>2
      <3>6. ASSUME NEW g \in UsedBy(f) PROVE store'[g].status = store[g].status
        <4>1. Kept(g)
          BY <2>1, <3>6
        <4>2. ASSUME ExtractMethod PROVE g # arg
          <5>1. stack # <<>> /\ Top.step = "methods" /\ mode = "return"
            BY <4>2 DEF ExtractMethod, Returned
          <5> QED
            BY <4>1, <5>1, MethodCalled DEF LoadInv, IsMethodFile, Kept
        <4> QED
          BY <3>1, <4>1, <4>2, StoreSteps DEF Kept
      <3> QED
        BY <3>2, <3>3, <3>4, <3>5, <3>6
    <2>3. CASE ~Load
      <3>1. \A g \in File : store'[g].status = store[g].status
        BY <2>3, StageSteps
      <3>2. UNCHANGED <<methodDefs, scopeImports, superDefs>> /\ store'[f].gen
        BY <2>3, StageSteps
      <3> QED
        BY <2>1, <3>1, <3>2 DEF Kept
    <2> QED
      BY <2>2, <2>3
  <1> QED
    BY <1>1, SoundAlways, PTL DEF Spec, AnalysedForGood
=============================================================================
