----------------------------- MODULE App_proofs -----------------------------
(***************************************************************************)
(* Proofs of the properties of mtype's driver, for every program: what     *)
(* loading files keeps, the stages of the entries of the AstStore, and the *)
(* pending external functions.                                             *)
(***************************************************************************)
EXTENDS AppProperties, FiniteSetTheorems, SequenceTheorems, TLAPS

\* The stack of file_entry's calls: what popping and advancing its top gives.
LEMMA StackTyped ==
  ASSUME LoaderTypeOK, stack # <<>>
  PROVE  /\ Len(stack) \in Nat /\ Len(stack) > 0
         /\ Top \in Frame /\ Below \in Seq(Frame)
         /\ Len(Below) = Len(stack) - 1
         /\ \A k \in 1..Len(Below) : Below[k] = stack[k]
  <1>1. stack \in Seq(Frame) /\ Len(stack) \in Nat /\ Len(stack) > 0
    BY DEF LoaderTypeOK
  <1>2. Top \in Frame
    BY <1>1 DEF Top
  <1>3. Below = [k \in 1..(Len(stack) - 1) |-> stack[k]]
    BY <1>1 DEF Below
  <1> HIDE DEF Frame
  <1>4. Below \in Seq(Frame) /\ Len(Below) = Len(stack) - 1
    BY <1>1, <1>3
  <1> QED
    BY <1>1, <1>2, <1>3, <1>4

\* Advancing a loop gives a frame of the same call, at its next iteration.
LEMMA AdvanceTyped ==
  ASSUME LoaderTypeOK, stack # <<>>, NEW ok, Advance(ok)
  PROVE  stack' \in Seq(Frame) /\ stack' # <<>>
  <1>1. Top \in Frame /\ Below \in Seq(Frame)
    BY StackTyped
  <1>2. [file |-> Top.file, scope |-> Top.scope, step |-> Top.step,
         i |-> Top.i + 1, ok |-> Top.ok /\ ok] \in Frame
    BY <1>1 DEF Frame
  <1> QED
    BY <1>1, <1>2 DEF Advance

\* What a loop looks for are files or nothing; it stays within the list it is over.
LEMMA TargetTyped ==
  ASSUME LoaderTypeOK, NEW t \in Frame
  PROVE  /\ NamedFiles(t) \in Seq(FileOrNone)
         /\ t.i <= Len(NamedFiles(t)) => Target(t) \in FileOrNone
  <1> DEFINE i == Info(t.file)
             methodFiles == [j \in DOMAIN i.methods |-> i.methods[j].file]
  <1>1. i \in FileInfo
    BY DEF Info, Frame, LoaderTypeOK, World
  <1>2. methodFiles \in Seq(FileOrNone)
    <2>1. i.methods \in Seq(Method)
      BY <1>1 DEF FileInfo
    <2>2. DOMAIN i.methods = 1..Len(i.methods) /\ Len(i.methods) \in Nat
      BY <2>1
    <2> HIDE DEF i
    <2>3. \A j \in DOMAIN i.methods : i.methods[j] \in Method
      BY <2>1
    <2>4. \A j \in DOMAIN i.methods : i.methods[j].file \in FileOrNone
      BY <2>3 DEF Method
    <2> QED
      BY <2>2, <2>4
  <1>3. i.supers \in Seq(FileOrNone) /\ i.imports \in Seq(FileOrNone)
    BY <1>1 DEF FileInfo
  <1>4. NamedFiles(t) \in {i.supers, methodFiles, PreImports, i.imports}
    BY DEF NamedFiles, Named, Frame, Step
  <1>5. NamedFiles(t) \in Seq(FileOrNone)
    BY <1>2, <1>3, <1>4, PreImportsAssumption
  <1>6. t.i \in Nat \ {0}
    BY DEF Frame
  <1> QED
    BY <1>5, <1>6 DEF Target

\* A step of file_entry keeps the types of what it reads and writes.
LEMMA FileEntryTyped ==
  ASSUME LoaderTypeOK, FileEntryStep
  PROVE  LoaderTypeOK'
  <1> USE DEF LoaderTypeOK
  <1>1. \A status \in {"absent", "failed", "parsed"} : Fresh(status) \in Entry
    BY DEF Fresh, Entry
  <1>2. ASSUME Returned(Step) PROVE stack # <<>> /\ Top \in Frame
    BY <1>2, StackTyped DEF Returned
  <1>3. CASE LookupHit
    BY <1>3 DEF LookupHit, Return
  <1>4. CASE ScanFailure
    BY <1>1, <1>4 DEF ScanFailure, Return
  <1>5. CASE ParseFailure
    BY <1>1, <1>5 DEF ParseFailure, Return
  <1>6. CASE ParseSuccess
    <2>1. ScopeOf(arg) \in File
      BY StackTyped DEF ScopeOf, Frame
    <2>2. [file |-> arg, scope |-> ScopeOf(arg), i |-> 1, ok |-> TRUE,
           step |-> IF IsClass(arg) THEN "supers" ELSE "pre"] \in Frame
      BY <2>1 DEF Frame, Step
    <2>3. stack' \in Seq(Frame) /\ stack' # <<>>
      BY <2>2, <1>6 DEF ParseSuccess
    <2> QED
      BY <1>1, <1>6, <2>3 DEF ParseSuccess
  <1>7. CASE CallFileEntry
    <2>1. Top \in Frame /\ Target(Top) \in FileOrNone
      BY <1>7, StackTyped, TargetTyped DEF CallFileEntry, Looping
    <2> QED
      BY <1>7, <2>1 DEF CallFileEntry, FileOrNone, fileState
  <1>8. CASE UndefinedAbstractMethod
    BY <1>8, AdvanceTyped DEF UndefinedAbstractMethod, Looping, fileState
  <1>9. CASE UnresolvedFile
    BY <1>9, AdvanceTyped DEF UnresolvedFile, Looping, fileState
  <1>10. CASE EndOfLoop
    <2>1. stack # <<>> /\ Top \in Frame /\ Below \in Seq(Frame)
      BY <1>10, StackTyped DEF EndOfLoop
    <2>2. CASE Top.ok /\ Top.step # "imports"
      <3>1. [file |-> Top.file, scope |-> Top.scope,
             step |-> NextStep[Top.step], i |-> 1, ok |-> Top.ok] \in Frame
        BY <2>1, <2>2 DEF Frame, Step, NextStep
      <3>2. stack' = Append(Below, [file |-> Top.file, scope |-> Top.scope,
                     step |-> NextStep[Top.step], i |-> 1, ok |-> Top.ok])
        BY <1>10, <2>2 DEF EndOfLoop
      <3>3. stack' \in Seq(Frame) /\ stack' # <<>>
        BY <2>1, <3>1, <3>2
      <3> QED
        BY <1>10, <2>2, <3>3 DEF EndOfLoop, fileState
    <2>3. CASE ~(Top.ok /\ Top.step # "imports")
      BY <1>10, <2>1, <2>3 DEF EndOfLoop, Return, Frame, fileState
    <2> QED
      BY <2>2, <2>3
  <1>11. CASE CalleeFailed
    BY <1>11, AdvanceTyped DEF CalleeFailed, Returned, fileState
  <1>12. CASE RegisterSuperclass
    <2>1. stack' \in Seq(Frame) /\ stack' # <<>> /\ Top \in Frame
      BY <1>12, AdvanceTyped, StackTyped DEF RegisterSuperclass, Returned
    <2>2. <<Top.file, Top.i>> \in File \X Nat
      BY <2>1 DEF Frame
    <2> QED
      BY <1>12, <2>1, <2>2 DEF RegisterSuperclass, Returned
  <1>13. CASE AddImport
    <2>1. stack' \in Seq(Frame) /\ stack' # <<>>
      BY <1>13, AdvanceTyped DEF AddImport, Returned
    <2> QED
      BY <1>13, <2>1 DEF AddImport, Returned
  <1>14. CASE NoMethodFile
    BY <1>14, AdvanceTyped DEF NoMethodFile, Returned, fileState
  <1>15. CASE ExtractMethod
    <2>1. stack' \in Seq(Frame) /\ stack' # <<>>
      BY <1>15, AdvanceTyped DEF ExtractMethod, Returned
    <2>2. <<arg, scans[arg]>> \in File \X Nat
      OBVIOUS
    <2>3. methodDefs' \in [File -> SUBSET (File \X Nat)]
      BY <1>15, <2>2 DEF ExtractMethod
    <2> QED
      BY <1>1, <1>15, <2>1, <2>3 DEF ExtractMethod, Returned
  <1> QED
    BY <1>3, <1>4, <1>5, <1>6, <1>7, <1>8, <1>9, <1>10, <1>11, <1>12, <1>13, <1>14, <1>15
    DEF FileEntryStep

\* Initially.
LEMMA InitTyped == Init => TypeOK
  <1> SUFFICES ASSUME Init PROVE TypeOK
    OBVIOUS
  <1>1. AnyFile \in File
    BY FileAssumption DEF AnyFile
  <1>2. Fresh("absent") \in Entry
    BY DEF Fresh, Entry
  <1>3. LoaderTypeOK
    <2>1. <<>> \in Seq(Frame)
      OBVIOUS
    <2>2. store \in [File -> Entry] /\ scans \in [File -> Nat]
      BY <1>2 DEF Init, LoaderInit
    <2>3. scopeImports \in [File -> SUBSET File] /\ methodDefs \in [File -> SUBSET (File \X Nat)]
      BY DEF Init, LoaderInit
    <2> QED
      BY <1>1, <2>1, <2>2, <2>3, WorldsAssumption DEF Init, LoaderInit, LoaderTypeOK
  <1>4. ExternalTypeOK
    BY DEF Init, ExternalInit, ExternalTypeOK
  <1>5. VisitTypeOK
    BY <1>1 DEF Init, VisitTypeOK, Phase
  <1> QED
    BY <1>3, <1>4, <1>5 DEF TypeOK

\* A pass over the pending functions, and a function that is looked up.
LEMMA ResolveTyped ==
  ASSUME ExternalTypeOK, ResolveExternalFunctions
  PROVE  ExternalTypeOK'
  <1> DEFINE loaded  == {c \in keys : Parsed(CandFile[c])}
             missing == {c \in loaded : ~HasHandle(c)}
             ready   == {c \in loaded : HasHandle(c) /\ HasType(c)}
             pairs   == (UNION {{c} \X pending[c] : c \in ready}) \ visitedPairs
  <1>1. missing \subseteq Cand /\ ready \subseteq Cand
    BY DEF ExternalTypeOK
  <1>2. /\ resolved' = resolved \cup ready
        /\ visitedPairs' = visitedPairs \cup pairs
        /\ called' = called \cup {pair[2] : pair \in pairs}
        /\ unresolved' = unresolved \cup UNION {pending[c] : c \in missing}
        /\ pending' = [c \in Cand |-> IF c \in missing \cup ready THEN {} ELSE pending[c]]
        /\ UNCHANGED <<typed, visited, keys, checked>>
    BY DEF ResolveExternalFunctions
  <1> HIDE DEF missing, ready
  <1>3. \A c \in ready : pending[c] \subseteq Fn
    BY <1>1 DEF ExternalTypeOK
  <1>4. pairs \subseteq Cand \X Fn
    BY <1>1, <1>3
  <1>5. {pair[2] : pair \in pairs} \subseteq Fn
    BY <1>4
  <1>6. UNION {pending[c] : c \in missing} \subseteq Fn
    BY <1>1 DEF ExternalTypeOK
  <1> HIDE DEF pairs
  <1> QED
    BY <1>1, <1>2, <1>4, <1>5, <1>6 DEF ExternalTypeOK

LEMMA CheckTyped ==
  ASSUME ExternalTypeOK, NEW p \in Fn, CheckFunction(p)
  PROVE  ExternalTypeOK'
  BY DEF ExternalTypeOK, CheckFunction

\* Every step.
LEMMA NextTyped == TypeOK /\ [Next]_vars => TypeOK'
  <1> SUFFICES ASSUME TypeOK, [Next]_vars PROVE TypeOK'
    OBVIOUS
  <1> USE DEF TypeOK
  <1> USE DEF Phase
  <1>1. CASE LocateRootIdentifiers
    <2> PICK names \in CommandLines :
          LET located == {i \in DOMAIN names : \A j \in 1..i : names[j] # None}
          IN /\ visited' = {names[i] : i \in located}
             /\ phase' = IF located = DOMAIN names THEN "iterate" ELSE "exit"
      BY <1>1 DEF LocateRootIdentifiers
    <2>1. names \in Seq(Cand \cup {None})
      BY CommandLinesAssumption
    <2>2. visited' \subseteq Cand
      BY <2>1
    <2>3. LoaderTypeOK'
      BY <1>1 DEF LocateRootIdentifiers, LoaderTypeOK, loaderVars, fileState
    <2>4. ExternalTypeOK'
      BY <1>1, <2>2 DEF LocateRootIdentifiers, ExternalTypeOK
    <2>5. VisitTypeOK'
      BY <1>1, <2>2 DEF LocateRootIdentifiers, VisitTypeOK, visitVars
    <2> QED
      BY <2>3, <2>4, <2>5
  <1>2. CASE VisitKnownFile
    BY <1>2 DEF VisitKnownFile, LoaderTypeOK, ExternalTypeOK, VisitTypeOK,
                loaderVars, fileState, externalVars, visitVars
  <1>3. CASE VisitNewFile
    <2> PICK c \in remaining : rootFile' = CandFile[c] /\ arg' = CandFile[c]
                                /\ remaining' = remaining \ {c}
      BY <1>3 DEF VisitNewFile
    <2>1. CandFile[c] \in File
      BY NamesAssumption DEF VisitTypeOK
    <2>2. LoaderTypeOK'
      BY <1>3, <2>1 DEF VisitNewFile, LoaderTypeOK
    <2>3. ExternalTypeOK' /\ VisitTypeOK'
      BY <1>3, <2>1 DEF VisitNewFile, ExternalTypeOK, VisitTypeOK, externalVars
    <2> QED
      BY <2>2, <2>3
  <1>4. CASE Finish
    BY <1>4 DEF Finish, LoaderTypeOK, ExternalTypeOK, VisitTypeOK,
                loaderVars, fileState, externalVars
  <1>5. CASE Load
    <2>1. LoaderTypeOK'
      BY <1>5, FileEntryTyped DEF Load
    <2>2. ExternalTypeOK' /\ VisitTypeOK'
      BY <1>5 DEF Load, ExternalTypeOK, VisitTypeOK, externalVars, visitVars
    <2> QED
      BY <2>1, <2>2
  <1>6. CASE Loaded
    <2>1. LoaderTypeOK'
      <3>1. \A f \in File : [store[f] EXCEPT !.base = TRUE] \in Entry
        BY DEF LoaderTypeOK, Entry
      <3>2. store' \in [File -> Entry]
        BY <1>6, <3>1 DEF Loaded, LoaderTypeOK
      <3> QED
        BY <1>6, <3>2 DEF Loaded, LoaderTypeOK
    <2>2. ExternalTypeOK' /\ VisitTypeOK'
      BY <1>6 DEF Loaded, ReturnFalse, ExternalTypeOK, VisitTypeOK, externalVars, visitVars
    <2> QED
      BY <2>1, <2>2
  <1>7. CASE ResolveTypeImports
    <2>1. LoaderTypeOK'
      BY <1>7 DEF ResolveTypeImports, LoaderTypeOK, Entry
    <2>2. ExternalTypeOK' /\ VisitTypeOK'
      BY <1>7 DEF ResolveTypeImports, ReturnFalse, ExternalTypeOK, VisitTypeOK, externalVars
    <2> QED
      BY <2>1, <2>2
  <1>8. ASSUME NEW f \in File, ResolveIdentifiersOf(f) PROVE TypeOK'
    <2>1. LoaderTypeOK'
      BY <1>8 DEF ResolveIdentifiersOf, LoaderTypeOK, Entry
    <2>2. ThisParse(f) \in File \X Nat /\ methodDefs[f] \subseteq File \X Nat
      BY DEF ThisParse, LoaderTypeOK
    <2>3. ExternalTypeOK'
      BY <1>8, <2>2 DEF ResolveIdentifiersOf, ExternalTypeOK
    <2>4. VisitTypeOK'
      BY <1>8 DEF ResolveIdentifiersOf, VisitTypeOK
    <2> QED
      BY <2>1, <2>3, <2>4
  <1>9. CASE ResolvedIdentifiers
    BY <1>9 DEF ResolvedIdentifiers, ReturnFalse, LoaderTypeOK, ExternalTypeOK, VisitTypeOK,
                fileState, externalVars
  <1>10. CASE GenerateTypeConstraints
    <2>1. LoaderTypeOK'
      <3>1. \A f \in File : [store[f] EXCEPT !.gen = TRUE] \in Entry
        BY DEF LoaderTypeOK, Entry
      <3>2. store' \in [File -> Entry]
        BY <1>10, <3>1 DEF GenerateTypeConstraints, LoaderTypeOK
      <3> QED
        BY <1>10, <3>2 DEF GenerateTypeConstraints, LoaderTypeOK
    <2>2. ExternalTypeOK' /\ VisitTypeOK'
      BY <1>10 DEF GenerateTypeConstraints, ExternalTypeOK, VisitTypeOK, externalVars, visitVars
    <2> QED
      BY <2>1, <2>2
  <1>11. CASE Resolve
    <2>1. Cardinality(keys) \in Nat
      BY CandAssumption, FS_Subset, FS_CardinalityType DEF ExternalTypeOK
    <2>2. ExternalTypeOK'
      BY <1>11, ResolveTyped DEF Resolve
    <2> QED
      BY <1>11, <2>1, <2>2 DEF Resolve, LoaderTypeOK, VisitTypeOK, loaderVars, fileState
  <1>12. ASSUME NEW p \in Fn, UnifyOne(p) PROVE TypeOK'
    <2>1. ExternalTypeOK'
      BY <1>12, CheckTyped DEF UnifyOne
    <2> QED
      BY <1>12, <2>1 DEF UnifyOne, LoaderTypeOK, VisitTypeOK, loaderVars, fileState, visitVars
  <1>13. CASE Unified
    BY <1>13 DEF Unified, ReturnTrue, LoaderTypeOK, ExternalTypeOK, VisitTypeOK,
                 loaderVars, fileState, externalVars, visitVars
  <1>14. CASE UNCHANGED vars
    BY <1>14 DEF vars, LoaderTypeOK, ExternalTypeOK, VisitTypeOK,
                 loaderVars, fileState, externalVars, visitVars
  <1> QED
    BY <1>1, <1>2, <1>3, <1>4, <1>5, <1>6, <1>7, <1>8, <1>9, <1>10, <1>11, <1>12, <1>13,
       <1>14 DEF Next, Stopped

\* Every container holds what it may hold, whatever the program that is checked.
THEOREM TypeCorrect == Spec => []TypeOK
  BY InitTyped, NextTyped, PTL DEF Spec

---------------------------------------------------------------------------
(* Steps of the program, sorted by what they do to file_entry's calls. *)

\* All but the steps that load change neither the calls nor what is in the AstStore.
LEMMA OtherSteps ==
  ASSUME TypeOK, [Next]_vars
  PROVE  \/ Load \/ VisitNewFile \/ Loaded \/ UNCHANGED vars
         \/ /\ phase # "load" /\ phase' # "load"
            /\ UNCHANGED <<world, mode, arg, ret, stack, rootFile, rootFiles>>
            /\ \A f \in File : store'[f].status = store[f].status
  <1> USE DEF TypeOK, LoaderTypeOK, fileState, loaderVars
  <1>1. CASE LocateRootIdentifiers
    BY <1>1 DEF LocateRootIdentifiers, visitVars
  <1>2. CASE VisitKnownFile \/ Finish \/ ResolvedIdentifiers \/ Resolve \/ Unified
    BY <1>2 DEF VisitKnownFile, Finish, ResolvedIdentifiers, Resolve, Unified, ReturnFalse,
                ReturnTrue, visitVars
  <1>3. CASE ResolveTypeImports
    <2>1. \A f \in File : store'[f].status = store[f].status
      BY <1>3 DEF ResolveTypeImports, Entry
    <2> QED
      BY <1>3, <2>1 DEF ResolveTypeImports, ReturnFalse
  <1>4. ASSUME NEW f \in File, ResolveIdentifiersOf(f)
        PROVE  /\ phase # "load" /\ phase' # "load"
               /\ UNCHANGED <<world, mode, arg, ret, stack, rootFile, rootFiles>>
               /\ \A g \in File : store'[g].status = store[g].status
    <2>1. \A g \in File : store'[g].status = store[g].status
      BY <1>4 DEF ResolveIdentifiersOf, Entry
    <2> QED
      BY <1>4, <2>1 DEF ResolveIdentifiersOf
  <1>5. CASE GenerateTypeConstraints
    <2>1. \A f \in File : store'[f].status = store[f].status
      BY <1>5 DEF GenerateTypeConstraints, Entry
    <2> QED
      BY <1>5, <2>1 DEF GenerateTypeConstraints, visitVars
  <1>6. ASSUME NEW p \in Fn, UnifyOne(p)
        PROVE  /\ phase # "load" /\ phase' # "load"
               /\ UNCHANGED <<world, mode, arg, ret, stack, rootFile, rootFiles>>
               /\ \A g \in File : store'[g].status = store[g].status
    BY <1>6 DEF UnifyOne, visitVars
  <1> QED
    BY <1>1, <1>2, <1>3, <1>4, <1>5, <1>6 DEF Next, Stopped

\* Advancing a loop replaces the top of the stack by a frame of the same call.
LEMMA Advanced ==
  ASSUME LoaderTypeOK, stack # <<>>, NEW ok, Advance(ok)
  PROVE  /\ Len(stack') = Len(stack) /\ DOMAIN stack' = DOMAIN stack
         /\ \A k \in DOMAIN stack : k # Len(stack) => stack'[k] = stack[k]
         /\ \A k \in DOMAIN stack : stack'[k].file = stack[k].file
         /\ \A k \in DOMAIN stack : stack'[k].ok => stack[k].ok
         /\ ~ok => ~stack'[Len(stack)].ok
  <1> DEFINE next == [file |-> Top.file, scope |-> Top.scope, step |-> Top.step,
                      i |-> Top.i + 1, ok |-> Top.ok /\ ok]
  <1>1. /\ Len(stack) \in Nat /\ Len(stack) > 0 /\ Top \in Frame /\ Below \in Seq(Frame)
        /\ Len(Below) = Len(stack) - 1 /\ \A k \in 1..Len(Below) : Below[k] = stack[k]
    BY StackTyped
  <1>2. stack' = Append(Below, next)
    BY DEF Advance
  <1>3. next.file = Top.file /\ (next.ok => Top.ok) /\ (~ok => ~next.ok)
    OBVIOUS
  <1> HIDE DEF next
  <1>4. DOMAIN stack = 1..Len(stack)
    BY DEF LoaderTypeOK
  <1>5. Len(stack') = Len(stack) /\ DOMAIN stack' = DOMAIN stack
    BY <1>1, <1>2, <1>4
  <1>6. \A k \in DOMAIN stack : k # Len(stack) => stack'[k] = stack[k]
    BY <1>1, <1>2, <1>4
  <1>7. stack'[Len(stack)] = next
    BY <1>1, <1>2
  <1>8. Top = stack[Len(stack)]
    BY DEF Top
  <1> QED
    BY <1>3, <1>5, <1>6, <1>7, <1>8

\* A step of file_entry pushes a call, pops one, advances one, or leaves the stack.
LEMMA StackSteps ==
  ASSUME LoaderTypeOK, FileEntryStep
  PROVE  \/ LookupHit \/ ScanFailure \/ ParseFailure \/ ParseSuccess \/ CallFileEntry
         \/ mode = "run" /\ Top.ok /\ mode' = "run"
            /\ \E step \in Step : 
                 stack' = Append(Below, [file |-> Top.file, scope |-> Top.scope,
                                         step |-> step, i |-> 1, ok |-> Top.ok])
         \/ mode = "run" /\ stack' = Below /\ mode' = "return" /\ arg' = Top.file
            /\ ret' = (IF Top.ok THEN "entry" ELSE "null") /\ UNCHANGED <<store, rootFiles>>
         \/ stack # <<>> /\ mode' = "run" /\ \E ok : Advance(ok)
  <1>1. stack # <<>> => Top \in Frame
    BY StackTyped
  <1>2. CASE LookupHit \/ ScanFailure \/ ParseFailure \/ ParseSuccess \/ CallFileEntry
    BY <1>2
  <1>3. CASE UndefinedAbstractMethod \/ UnresolvedFile
    BY <1>3 DEF UndefinedAbstractMethod, UnresolvedFile, Looping, LoaderTypeOK
  <1>4. CASE EndOfLoop
    <2>1. stack # <<>> /\ Top.step \in Step
      BY <1>1, <1>4 DEF EndOfLoop, LoaderTypeOK, Frame
    <2>2. CASE Top.ok /\ Top.step # "imports"
      <3>1. NextStep[Top.step] \in Step
        BY <2>1, <2>2 DEF NextStep, Step
      <3> QED
        BY <1>4, <2>2, <3>1 DEF EndOfLoop
    <2>3. CASE ~(Top.ok /\ Top.step # "imports")
      BY <1>4, <2>3 DEF EndOfLoop, Return, fileState
    <2> QED
      BY <2>2, <2>3
  <1>5. CASE CalleeFailed \/ AddImport \/ NoMethodFile
    BY <1>5 DEF CalleeFailed, AddImport, NoMethodFile, Returned
  <1>6. CASE RegisterSuperclass
    BY <1>6 DEF RegisterSuperclass, Returned, IsClass
  <1>7. CASE ExtractMethod
    BY <1>7 DEF ExtractMethod, Returned
  <1> QED
    BY <1>2, <1>3, <1>4, <1>5, <1>6, <1>7 DEF FileEntryStep

---------------------------------------------------------------------------
(* The chain of calls. *)

LEMMA DomainOfStack ==
  ASSUME LoaderTypeOK
  PROVE  /\ DOMAIN stack = 1..Len(stack) /\ Len(stack) \in Nat
         /\ stack # <<>> <=> Len(stack) > 0
         /\ stack # <<>> => Len(stack) \in DOMAIN stack /\ 1 \in DOMAIN stack
         /\ \A k \in DOMAIN stack : stack[k] \in Frame
  BY DEF LoaderTypeOK

LEMMA ChainLoad ==
  ASSUME TypeOK, CallChain, Load
  PROVE  CallChain'
  <1> USE DEF TypeOK
  <1>1. /\ DOMAIN stack = 1..Len(stack) /\ Len(stack) \in Nat
        /\ stack # <<>> <=> Len(stack) > 0
        /\ stack # <<>> => Len(stack) \in DOMAIN stack /\ 1 \in DOMAIN stack
        /\ \A k \in DOMAIN stack : stack[k] \in Frame
    BY DomainOfStack
  <1>2. /\ FileEntryStep /\ phase = "load" /\ phase' = "load"
        /\ UNCHANGED <<world, rootFile>>
    <2>1. FileEntryStep /\ phase = "load" /\ UNCHANGED <<phase, rootFile>>
      BY DEF Load, visitVars
    <2>2. UNCHANGED world
      BY <2>1 DEF FileEntryStep, LookupHit, ScanFailure, ParseFailure, ParseSuccess,
        CallFileEntry, UndefinedAbstractMethod, UnresolvedFile, EndOfLoop, CalleeFailed,
        RegisterSuperclass, AddImport, NoMethodFile, ExtractMethod
    <2> QED
      BY <2>1, <2>2
  <1>3. LoaderTypeOK'
    BY <1>2, FileEntryTyped
  <1>4. mode # "off"
    BY <1>2 DEF CallChain
  <1> DEFINE Asked(k) == /\ stack[k].i <= Len(Named(world.file[stack[k].file], stack[k].step))
                         /\ stack[k + 1].file
                              = Named(world.file[stack[k].file], stack[k].step)[stack[k].i]
  <1>5. \A k \in DOMAIN stack : k + 1 \in DOMAIN stack => Asked(k)
    BY DEF CallChain, NamedFiles, Target, Info
  <1> SUFFICES /\ mode' \in {"enter", "run", "return"}
               /\ stack' = <<>> => arg' = rootFile
               /\ stack' # <<>> => stack'[1].file = rootFile
               /\ \A k \in DOMAIN stack' : k + 1 \in DOMAIN stack' => Asked(k)'
               /\ stack' # <<>> /\ mode' \in {"enter", "return"} =>
                    (Top.i <= Len(NamedFiles(Top)) /\ arg = Target(Top))'
    BY <1>2 DEF CallChain, NamedFiles, Target, Info
  <1>6. CASE LookupHit \/ ScanFailure \/ ParseFailure
    <2>1. mode = "enter" /\ mode' = "return" /\ UNCHANGED <<stack, arg>>
      BY <1>6 DEF LookupHit, ScanFailure, ParseFailure, Return
    <2> QED
      BY <1>2, <1>5, <2>1 DEF CallChain, NamedFiles, Target, Top, Info
  <1>7. CASE CallFileEntry
    <2>1. mode' = "enter" /\ arg' = Target(Top) /\ UNCHANGED stack /\ stack # <<>>
          /\ Top.i <= Len(NamedFiles(Top))
      BY <1>7 DEF CallFileEntry, Looping, LoaderTypeOK
    <2> QED
      BY <1>2, <1>5, <2>1 DEF CallChain, NamedFiles, Target, Top, Info
  <1>8. CASE ParseSuccess
    <2>1. PICK t : t.file = arg /\ stack' = Append(stack, t)
      BY <1>8 DEF ParseSuccess
    <2>2. mode = "enter" /\ mode' = "run" /\ UNCHANGED arg
      BY <1>8 DEF ParseSuccess
    <2>3. /\ Len(stack') = Len(stack) + 1 /\ DOMAIN stack' = 1..(Len(stack) + 1)
          /\ stack'[Len(stack) + 1] = t /\ \A k \in DOMAIN stack : stack'[k] = stack[k]
      <3>1. stack' \in Seq(Frame)
        BY <1>3 DEF LoaderTypeOK
      <3>2. Len(stack') = Len(stack) + 1 /\ stack'[Len(stack) + 1] = t
            /\ \A k \in 1..Len(stack) : stack'[k] = stack[k]
        BY <1>1, <2>1 DEF LoaderTypeOK
      <3> QED
        BY <1>1, <3>1, <3>2
    <2>4. ASSUME NEW k \in DOMAIN stack', k + 1 \in DOMAIN stack'
          PROVE  Asked(k)'
      <3>1. CASE k + 1 \in DOMAIN stack
        BY <1>1, <1>2, <1>5, <2>3, <2>4, <3>1
      <3>2. CASE k = Len(stack)
        <4>1. stack # <<>> /\ k \in DOMAIN stack
          BY <1>1, <2>3, <2>4, <3>2
        <4> Top = stack[k]
          BY <3>2 DEF Top
        <4>2. Top.i <= Len(NamedFiles(Top)) /\ arg = Target(Top)
          BY <2>2, <4>1 DEF CallChain
        <4> QED
          BY <1>2, <2>1, <2>3, <3>2, <4>1, <4>2 DEF NamedFiles, Target, Info
      <3> QED
        BY <1>1, <2>3, <2>4, <3>1, <3>2
    <2>5. stack' # <<>> /\ stack'[1].file = rootFile
      <3>1. CASE stack = <<>>
        BY <1>1, <1>4, <2>1, <2>3, <3>1 DEF CallChain
      <3>2. CASE stack # <<>>
        BY <1>1, <2>3, <3>2 DEF CallChain
      <3> QED
        BY <3>1, <3>2
    <2> QED
      BY <2>2, <2>4, <2>5
  <1>9. CASE stack # <<>> /\ mode' = "run" /\ \E ok : Advance(ok)
    <2>1. /\ Len(stack') = Len(stack) /\ DOMAIN stack' = DOMAIN stack
          /\ \A k \in DOMAIN stack : k # Len(stack) => stack'[k] = stack[k]
          /\ \A k \in DOMAIN stack : stack'[k].file = stack[k].file
      BY <1>9, Advanced
    <2>2. ASSUME NEW k \in DOMAIN stack', k + 1 \in DOMAIN stack' PROVE Asked(k)'
      BY <1>1, <1>2, <1>5, <2>1, <2>2
    <2>3. stack' # <<>> /\ stack'[1].file = rootFile
      BY <1>1, <1>3, <1>9, <2>1 DEF CallChain, LoaderTypeOK
    <2> QED
      BY <1>9, <2>2, <2>3
  <1>10. CASE mode = "run" /\ Top.ok /\ mode' = "run"
              /\ \E step \in Step : 
                   stack' = Append(Below, [file |-> Top.file, scope |-> Top.scope,
                                           step |-> step, i |-> 1, ok |-> Top.ok])
    <2>1. PICK t : t.file = Top.file /\ stack' = Append(Below, t)
      BY <1>10
    <2>2. stack # <<>> /\ Len(Below) = Len(stack) - 1 /\ Below \in Seq(Frame)
          /\ \A k \in 1..Len(Below) : Below[k] = stack[k]
      BY <1>10, StackTyped DEF LoaderTypeOK
    <2>3. /\ Len(stack') = Len(stack) /\ DOMAIN stack' = DOMAIN stack
          /\ \A k \in DOMAIN stack : k # Len(stack) => stack'[k] = stack[k]
          /\ stack'[Len(stack)] = t
      <3>1. stack' \in Seq(Frame)
        BY <1>3 DEF LoaderTypeOK
      <3>2. Len(stack') = Len(Below) + 1 /\ stack'[Len(Below) + 1] = t
            /\ \A k \in 1..Len(Below) : stack'[k] = Below[k]
        BY <2>1, <2>2
      <3>3. Len(stack') = Len(stack) /\ stack'[Len(stack)] = t
        BY <1>1, <2>2, <3>2
      <3>4. DOMAIN stack' = DOMAIN stack
        BY <1>1, <3>1, <3>3
      <3> QED
        BY <1>1, <2>2, <3>2, <3>3, <3>4
    <2>4. \A k \in DOMAIN stack : stack'[k].file = stack[k].file
      BY <2>1, <2>3 DEF Top
    <2>5. ASSUME NEW k \in DOMAIN stack', k + 1 \in DOMAIN stack' PROVE Asked(k)'
      BY <1>1, <1>2, <1>5, <2>3, <2>4, <2>5
    <2>6. stack' # <<>> /\ stack'[1].file = rootFile
      BY <1>1, <1>3, <2>2, <2>3, <2>4 DEF CallChain, LoaderTypeOK
    <2> QED
      BY <1>10, <2>5, <2>6
  <1>11. CASE mode = "run" /\ stack' = Below /\ mode' = "return" /\ arg' = Top.file
    <2>1. stack # <<>> /\ Len(Below) = Len(stack) - 1 /\ Below \in Seq(Frame)
          /\ \A k \in 1..Len(Below) : Below[k] = stack[k]
      BY <1>11, StackTyped DEF LoaderTypeOK
    <2>2. /\ DOMAIN stack' = 1..(Len(stack) - 1) /\ Len(stack') = Len(stack) - 1
          /\ \A k \in DOMAIN stack' : stack'[k] = stack[k]
      BY <1>11, <2>1
    <2>3. ASSUME NEW k \in DOMAIN stack', k + 1 \in DOMAIN stack' PROVE Asked(k)'
      BY <1>1, <1>2, <1>5, <2>2, <2>3
    <2>4. CASE stack' = <<>>
      BY <1>1, <1>11, <2>1, <2>2, <2>3, <2>4 DEF CallChain, Top
    <2>5. CASE stack' # <<>>
      <3> DEFINE k == Len(stack) - 1
      <3>1. k \in DOMAIN stack' /\ k \in DOMAIN stack /\ k + 1 \in DOMAIN stack
            /\ 1 \in DOMAIN stack'
        BY <1>1, <1>3, <2>1, <2>2, <2>5 DEF LoaderTypeOK
      <3>2. Asked(k) /\ Top' = stack[k] /\ Top = stack[k + 1]
        BY <1>1, <1>5, <2>2, <3>1 DEF Top
      <3>3. (Top.i <= Len(NamedFiles(Top)) /\ arg = Target(Top))'
        BY <1>2, <1>11, <3>2 DEF NamedFiles, Target, Info
      <3>4. stack'[1].file = rootFile
        BY <2>1, <2>2, <3>1 DEF CallChain
      <3> QED
        BY <1>11, <2>3, <2>5, <3>3, <3>4
    <2> QED
      BY <2>4, <2>5
  <1> QED
    BY <1>2, <1>6, <1>7, <1>8, <1>9, <1>10, <1>11, StackSteps
    DEF FileEntryStep

\* The files of the calls stay; a frame that has failed stays so until it is popped.
LEMMA StackKept ==
  ASSUME LoaderTypeOK, FileEntryStep
  PROVE  /\ \A k \in DOMAIN stack' :
              \/ k \in DOMAIN stack /\ stack'[k].file = stack[k].file
                 /\ (stack'[k].ok => stack[k].ok)
              \/ ParseSuccess /\ k \notin DOMAIN stack /\ k = Len(stack) + 1
                 /\ stack'[k].file = arg
         /\ \A k \in DOMAIN stack : k \notin DOMAIN stack' =>
              /\ mode' = "return" /\ arg' = stack[k].file
              /\ ret' = (IF stack[k].ok THEN "entry" ELSE "null")
              /\ UNCHANGED <<store, rootFiles>>
  <1>1. /\ DOMAIN stack = 1..Len(stack) /\ Len(stack) \in Nat
        /\ stack # <<>> <=> Len(stack) > 0
        /\ \A k \in DOMAIN stack : stack[k] \in Frame
    BY DomainOfStack
  <1>2. LoaderTypeOK'
    BY FileEntryTyped
  <1>3. CASE LookupHit \/ ScanFailure \/ ParseFailure \/ CallFileEntry
    <2>1. UNCHANGED stack
      BY <1>3 DEF LookupHit, ScanFailure, ParseFailure, CallFileEntry
    <2> QED
      BY <2>1
  <1>4. CASE ParseSuccess
    <2>1. PICK t : t.file = arg /\ stack' = Append(stack, t)
      BY <1>4 DEF ParseSuccess
    <2>2. stack' \in Seq(Frame)
      BY <1>2 DEF LoaderTypeOK
    <2>3. Len(stack') = Len(stack) + 1 /\ stack'[Len(stack) + 1] = t
          /\ \A k \in 1..Len(stack) : stack'[k] = stack[k]
      BY <1>1, <2>1 DEF LoaderTypeOK
    <2>4. DOMAIN stack' = 1..(Len(stack) + 1)
      BY <2>2, <2>3
    <2> QED
      BY <1>1, <1>4, <2>1, <2>3, <2>4
  <1>5. CASE stack # <<>> /\ \E ok : Advance(ok)
    <2>1. /\ DOMAIN stack' = DOMAIN stack
          /\ \A k \in DOMAIN stack : stack'[k].file = stack[k].file
          /\ \A k \in DOMAIN stack : stack'[k].ok => stack[k].ok
      BY <1>5, Advanced
    <2> QED
      BY <2>1
  <1>6. CASE mode = "run" /\ \E step \in Step : 
                   stack' = Append(Below, [file |-> Top.file, scope |-> Top.scope,
                                           step |-> step, i |-> 1, ok |-> Top.ok])
    <2>1. PICK t : t.file = Top.file /\ t.ok = Top.ok /\ stack' = Append(Below, t)
      BY <1>6
    <2>2. stack # <<>> /\ Len(Below) = Len(stack) - 1 /\ Below \in Seq(Frame)
          /\ \A k \in 1..Len(Below) : Below[k] = stack[k]
      BY <1>6, StackTyped DEF LoaderTypeOK
    <2>3. stack' \in Seq(Frame)
      BY <1>2 DEF LoaderTypeOK
    <2>4. Len(stack') = Len(Below) + 1 /\ stack'[Len(Below) + 1] = t
          /\ \A k \in 1..Len(Below) : stack'[k] = Below[k]
      BY <2>1, <2>2
    <2>5. DOMAIN stack' = DOMAIN stack /\ stack'[Len(stack)] = t
          /\ \A k \in DOMAIN stack : k # Len(stack) => stack'[k] = stack[k]
      BY <1>1, <2>2, <2>3, <2>4
    <2> QED
      BY <2>1, <2>5 DEF Top
  <1>7. CASE mode = "run" /\ stack' = Below /\ mode' = "return" /\ arg' = Top.file
             /\ ret' = (IF Top.ok THEN "entry" ELSE "null") /\ UNCHANGED <<store, rootFiles>>
    <2>1. stack # <<>> /\ Len(Below) = Len(stack) - 1 /\ Below \in Seq(Frame)
          /\ \A k \in 1..Len(Below) : Below[k] = stack[k]
      BY <1>7, StackTyped DEF LoaderTypeOK
    <2>2. DOMAIN stack' = 1..(Len(stack) - 1) /\ \A k \in DOMAIN stack' : stack'[k] = stack[k]
      BY <1>7, <2>1
    <2>3. \A k \in DOMAIN stack : k \notin DOMAIN stack' => stack[k] = Top
      BY <1>1, <2>2 DEF Top
    <2> QED
      BY <1>1, <1>7, <2>2, <2>3
  <1> QED
    BY <1>3, <1>4, <1>5, <1>6, <1>7, StackSteps

\* The call that a loop over the methods of a class makes is for the file of one of them.
LEMMA MethodCalled ==
  ASSUME TypeOK, CallChain, stack # <<>>, Top.step = "methods", mode \in {"enter", "return"}
  PROVE  /\ Top = stack[Len(stack)] /\ Len(stack) \in DOMAIN stack
         /\ Top.file \in File /\ Top.i \in Nat /\ Top.i \in DOMAIN Info(Top.file).methods
         /\ Info(Top.file).methods[Top.i].file = arg
  <1> USE DEF TypeOK
  <1>1. Len(stack) \in DOMAIN stack /\ Top = stack[Len(stack)] /\ Top \in Frame
    BY DomainOfStack DEF Top
  <1>2. Top.i <= Len(NamedFiles(Top)) /\ arg = Target(Top)
    BY DEF CallChain
  <1> DEFINE methods == world.file[Top.file].methods
  <1>3. world \in World /\ Top.file \in File /\ Top.i \in Nat \ {0}
    BY <1>1 DEF LoaderTypeOK, Frame
  <1>4. methods \in Seq(Method)
    BY <1>3 DEF World, FileInfo
  <1>5. Named(world.file[Top.file], "methods") = [j \in DOMAIN methods |-> methods[j].file]
    BY DEF Named
  <1>6. Top.i \in DOMAIN methods /\ arg = methods[Top.i].file
    <2> HIDE DEF methods
    <2>1. Len([j \in DOMAIN methods |-> methods[j].file]) = Len(methods)
      BY <1>4
    <2>2. Top.i \in DOMAIN methods
      BY <1>2, <1>3, <1>4, <1>5, <2>1 DEF NamedFiles, Info
    <2> QED
      BY <1>2, <1>5, <2>2 DEF Target, NamedFiles, Info
  <1> QED
    BY <1>1, <1>3, <1>6 DEF Info

\* The file that a method is extracted from is one that no call in progress is for,
\* and that no candidate is in.
LEMMA ExtractedFileUnused ==
  ASSUME TypeOK, CallChain, DistinctCalls, phase = "load", ExtractMethod,
         \A w \in Worlds : MethodFilesApart(w)
  PROVE  /\ \A c \in Cand : CandFile[c] # arg
         /\ \A k \in DOMAIN stack : stack[k].file # arg
  <1> USE DEF TypeOK
  <1>1. /\ DOMAIN stack = 1..Len(stack) /\ Len(stack) \in Nat
        /\ stack # <<>> => Len(stack) \in DOMAIN stack /\ 1 \in DOMAIN stack
        /\ \A k \in DOMAIN stack : stack[k] \in Frame
    BY DomainOfStack
  <1>2. stack # <<>> /\ Top.step = "methods" /\ mode = "return" /\ Top = stack[Len(stack)]
    BY DEF ExtractMethod, Returned, Top
  <1>3. /\ Top.file \in File /\ Top.i \in DOMAIN world.file[Top.file].methods
        /\ arg = world.file[Top.file].methods[Top.i].file
    BY <1>2, MethodCalled DEF Info
  <1>4. arg # None
    BY NamesAssumption DEF LoaderTypeOK
  <1>5. NamedOnlyBy(world, arg, Top.file, Top.i)
    BY <1>3, <1>4 DEF CallChain, MethodFilesApart
  <1>6. ASSUME NEW k \in DOMAIN stack, stack[k].file = arg PROVE FALSE
    <2>1. k # 1
      BY <1>2, <1>5, <1>6 DEF CallChain, NamedOnlyBy
    <2> DEFINE j == k - 1
               u == stack[j]
               named == Named(world.file[u.file], u.step)
    <2>2. j \in DOMAIN stack /\ j + 1 = k /\ j # Len(stack)
      BY <1>1, <2>1
    <2>3. u \in Frame /\ u.i <= Len(named) /\ named[u.i] = arg
      BY <1>1, <1>6, <2>2 DEF CallChain, NamedFiles, Target, Info
    <2>4. u.file \in File /\ u.i \in Nat \ {0} /\ u.step \in Step
      BY <2>3 DEF Frame
    <2>5. named \in Seq(FileOrNone)
      BY <2>3, TargetTyped DEF NamedFiles, Info
    <2>6. u.i \in DOMAIN named
      BY <2>3, <2>4, <2>5
    <2> HIDE DEF u
    <2>7. named \in {world.file[u.file].supers, PreImports, world.file[u.file].imports,
                     [l \in DOMAIN world.file[u.file].methods |-> world.file[u.file].methods[l].file]}
      BY <2>4 DEF Named, Step
    <2>8. named = [l \in DOMAIN world.file[u.file].methods |-> world.file[u.file].methods[l].file]
      BY <1>5, <2>3, <2>4, <2>6, <2>7 DEF NamedOnlyBy
    <2>9. u.file = Top.file
      BY <1>5, <2>3, <2>4, <2>6, <2>8 DEF NamedOnlyBy
    <2> QED
      BY <1>1, <1>2, <2>2, <2>9 DEF DistinctCalls, u
  <1> QED
    BY <1>5, <1>6 DEF NamedOnlyBy

---------------------------------------------------------------------------
(* The AstStore while files are being loaded. *)

\* What a step of file_entry does to the entries and to the root files.
LEMMA StoreSteps ==
  ASSUME LoaderTypeOK, FileEntryStep
  PROVE  \/ UNCHANGED <<store, rootFiles>>
         \/ LookupHit /\ UNCHANGED store /\ Stored(arg) /\ rootFiles' = rootFiles \cup {arg}
         \/ /\ ScanFailure \/ ParseFailure
            /\ ~Stored(arg) /\ store' = [store EXCEPT ![arg] = Fresh("failed")]
            /\ mode' = "return" /\ ret' = "null" /\ UNCHANGED <<arg, rootFiles>>
         \/ /\ ParseSuccess /\ mode = "enter" /\ mode' = "run"
            /\ ~Stored(arg) /\ store' = [store EXCEPT ![arg] = Fresh("parsed")]
            /\ rootFiles' = rootFiles \cup {arg} /\ UNCHANGED arg
         \/ /\ ExtractMethod /\ mode' = "run" /\ ret = "entry" /\ Parsed(arg)
            /\ store' = [store EXCEPT ![arg] = Fresh("absent")] /\ rootFiles' = rootFiles \ {arg}
  <1>1. CASE LookupHit
    BY <1>1 DEF LookupHit
  <1>2. CASE ScanFailure \/ ParseFailure
    BY <1>2 DEF ScanFailure, ParseFailure, Return
  <1>3. CASE ParseSuccess
    BY <1>3 DEF ParseSuccess
  <1>4. CASE ExtractMethod
    BY <1>4 DEF ExtractMethod, Returned
  <1>5. CASE CallFileEntry \/ UndefinedAbstractMethod \/ UnresolvedFile \/ EndOfLoop
             \/ CalleeFailed \/ NoMethodFile
    BY <1>5 DEF CallFileEntry, UndefinedAbstractMethod, UnresolvedFile, EndOfLoop,
                CalleeFailed, NoMethodFile, fileState
  <1>6. CASE RegisterSuperclass \/ AddImport
    BY <1>6 DEF RegisterSuperclass, AddImport
  <1> QED
    BY <1>1, <1>2, <1>3, <1>4, <1>5, <1>6 DEF FileEntryStep

LEMMA RootsLoad ==
  ASSUME TypeOK, RootsInStore, FileEntryStep
  PROVE  RootsInStore'
  BY StoreSteps DEF TypeOK, LoaderTypeOK, RootsInStore, Stored, Fresh

LEMMA EntriesLoad ==
  ASSUME TypeOK, CallChain, DistinctCalls, EntriesInUse, phase = "load", FileEntryStep,
         \A w \in Worlds : MethodFilesApart(w)
  PROVE  DistinctCalls' /\ EntriesInUse'
  <1> USE DEF TypeOK
  <1>1. \A k \in DOMAIN stack : stack[k].file \in File
    BY DomainOfStack DEF Frame
  <1>2. \A k \in DOMAIN stack' :
              \/ k \in DOMAIN stack /\ stack'[k].file = stack[k].file
              \/ ParseSuccess /\ k \notin DOMAIN stack /\ k = Len(stack) + 1
                 /\ stack'[k].file = arg
    BY StackKept
  <1>3. DistinctCalls'
    <2>1. ASSUME ParseSuccess, NEW k \in DOMAIN stack PROVE stack[k].file # arg
      BY <2>1 DEF ParseSuccess, EntriesInUse, Parsed, Stored
    <2> QED
      BY <1>2, <2>1 DEF DistinctCalls
  <1>4. ASSUME NEW k \in DOMAIN stack' PROVE Parsed(stack[k].file)'
    <2>1. CASE ParseSuccess
      BY <1>1, <1>2, <2>1 DEF ParseSuccess, EntriesInUse, Parsed, Fresh, LoaderTypeOK
    <2>2. CASE ~ParseSuccess
      <3>1. k \in DOMAIN stack /\ stack'[k].file = stack[k].file /\ Parsed(stack[k].file)
        BY <1>2, <2>2 DEF EntriesInUse
      <3>2. CASE ExtractMethod
        <4>1. stack[k].file # arg
          BY <3>1, <3>2, ExtractedFileUnused
        <4> QED
          BY <1>1, <3>1, <3>2, <4>1 DEF ExtractMethod, Parsed, LoaderTypeOK
      <3>3. CASE ~ExtractMethod
        BY <1>1, <2>2, <3>1, <3>3, StoreSteps DEF Parsed, Stored, LoaderTypeOK
      <3> QED
        BY <3>2, <3>3
    <2> QED
      BY <2>1, <2>2
  <1> QED
    BY <1>3, <1>4 DEF EntriesInUse

\* A failure stays one: it is passed on from call to call.
LEMMA FailingKept ==
  ASSUME LoaderTypeOK, FileEntryStep, Failing
  PROVE  Failing'
  <1>1. /\ DOMAIN stack = 1..Len(stack) /\ Len(stack) \in Nat
        /\ stack # <<>> <=> Len(stack) > 0
        /\ \A k \in DOMAIN stack : stack[k] \in Frame
    BY DomainOfStack
  <1>2. /\ \A k \in DOMAIN stack' : k \in DOMAIN stack => (stack'[k].ok => stack[k].ok)
        /\ \A k \in DOMAIN stack : k \notin DOMAIN stack' =>
              /\ mode' = "return" /\ arg' = stack[k].file
              /\ ret' = (IF stack[k].ok THEN "entry" ELSE "null")
              /\ UNCHANGED <<store, rootFiles>>
    <2>1. \A k \in DOMAIN stack' : k \in DOMAIN stack => (stack'[k].ok => stack[k].ok)
      BY StackKept
    <2>2. \A k \in DOMAIN stack : k \notin DOMAIN stack' =>
              /\ mode' = "return" /\ arg' = stack[k].file
              /\ ret' = (IF stack[k].ok THEN "entry" ELSE "null")
              /\ UNCHANGED <<store, rootFiles>>
      BY StackKept
    <2> QED
      BY <2>1, <2>2
  <1>3. ASSUME NEW k \in DOMAIN stack, ~stack[k].ok PROVE Failing'
    <2>1. CASE k \in DOMAIN stack'
      BY <1>2, <1>3, <2>1 DEF Failing
    <2>2. CASE k \notin DOMAIN stack'
      BY <1>2, <1>3, <2>2 DEF Failing
    <2> QED
      BY <2>1, <2>2
  <1>4. ASSUME mode = "return", ret = "null" \/ ~Parsed(arg) PROVE Failing'
    <2>1. /\ CalleeFailed \/ NoMethodFile
          /\ stack # <<>> /\ Advance(FALSE)
      <3>1. CASE LookupHit \/ ScanFailure \/ ParseFailure \/ ParseSuccess
        BY <1>4, <3>1 DEF LookupHit, ScanFailure, ParseFailure, ParseSuccess
      <3>2. CASE CallFileEntry \/ UndefinedAbstractMethod \/ UnresolvedFile \/ EndOfLoop
        BY <1>4, <3>2 DEF CallFileEntry, UndefinedAbstractMethod, UnresolvedFile, EndOfLoop,
                          Looping
      <3>3. CASE RegisterSuperclass \/ AddImport \/ ExtractMethod
        BY <1>4, <3>3 DEF RegisterSuperclass, AddImport, ExtractMethod
      <3>4. CASE CalleeFailed \/ NoMethodFile
        BY <3>4 DEF CalleeFailed, NoMethodFile, Returned
      <3> QED
        BY <3>1, <3>2, <3>3, <3>4 DEF FileEntryStep
    <2>2. Len(stack) \in DOMAIN stack' /\ ~stack'[Len(stack)].ok
      <3>1. DOMAIN stack' = DOMAIN stack /\ (~FALSE => ~stack'[Len(stack)].ok)
        BY <2>1, Advanced
      <3>2. Len(stack) \in DOMAIN stack
        BY <1>1, <2>1
      <3> QED
        BY <3>1, <3>2
    <2> QED
      BY <2>2 DEF Failing
  <1> QED
    BY <1>3, <1>4 DEF Failing

\* A failed root entry keeps some call from succeeding, up to the first one.
LEMMA FailuresLoad ==
  ASSUME TypeOK, LoadInv, Load
  PROVE  FailuresPropagate'
  <1> USE DEF TypeOK, LoadInv
  <1>1. FileEntryStep /\ phase = "load" /\ phase' = "load"
    BY DEF Load
  <1>2. /\ DOMAIN stack = 1..Len(stack) /\ Len(stack) \in Nat
        /\ stack # <<>> <=> Len(stack) > 0
        /\ \A k \in DOMAIN stack : stack[k] \in Frame
    BY DomainOfStack
  <1>3. \A k \in DOMAIN stack : k \notin DOMAIN stack' =>
              /\ mode' = "return" /\ arg' = stack[k].file
              /\ UNCHANGED <<store, rootFiles>>
    BY <1>1, StackKept
  <1>4. Failing => Failing'
    BY <1>1, FailingKept
  <1>5. Failing' \/ (\A f \in rootFiles : Parsed(f))'
    <2>1. CASE Failing
      BY <1>4, <2>1
    <2>2. CASE ~Failing
      <3>1. \A f \in rootFiles : Parsed(f)
        BY <1>1, <2>2 DEF FailuresPropagate
      <3>2. CASE LookupHit
        <4>1. mode' = "return" /\ UNCHANGED <<arg, store>> /\ rootFiles' = rootFiles \cup {arg}
          BY <3>2 DEF LookupHit, Return
        <4>2. CASE Parsed(arg)
          BY <3>1, <4>1, <4>2 DEF Parsed
        <4>3. CASE ~Parsed(arg)
          BY <4>1, <4>3 DEF Parsed, Failing
        <4> QED
          BY <4>2, <4>3
      <3>3. CASE ~LookupHit
        <4> DEFINE Returns == /\ \A f \in File : f # arg => store'[f] = store[f]
                              /\ rootFiles' = rootFiles
                              /\ mode' = "return" /\ ret' = "null"
                   Parses == /\ \A f \in File : f # arg => store'[f] = store[f]
                             /\ store'[arg].status = "parsed" /\ rootFiles' = rootFiles \cup {arg}
                   Extracts == /\ \A f \in File : f # arg => store'[f] = store[f]
                               /\ rootFiles' = rootFiles \ {arg}
        <4>1. rootFiles \subseteq File /\ arg \in File /\ store \in [File -> Entry]
          BY DEF LoaderTypeOK
        <4>2. UNCHANGED <<store, rootFiles>> \/ Returns \/ Parses \/ Extracts
          BY <1>1, <3>3, <4>1, StoreSteps DEF Fresh
        <4>3. CASE Returns
          BY <4>3 DEF Failing
        <4>4. CASE UNCHANGED <<store, rootFiles>> \/ Parses \/ Extracts
          BY <3>1, <4>1, <4>4 DEF Parsed
        <4> QED
          BY <4>2, <4>3, <4>4
      <3> QED
        BY <3>2, <3>3
    <2> QED
      BY <2>1, <2>2
  <1>6. ~(mode' = "enter" /\ stack' = <<>>)
    <2>1. CASE CallFileEntry
      BY <2>1 DEF CallFileEntry, Looping, LoaderTypeOK
    <2>2. CASE ~CallFileEntry
      <3>1. mode' # "enter"
        BY <1>1, <2>2 DEF FileEntryStep, LookupHit, ScanFailure, ParseFailure, ParseSuccess,
          UndefinedAbstractMethod, UnresolvedFile, EndOfLoop, CalleeFailed, Return, Returned,
          RegisterSuperclass, AddImport, NoMethodFile, ExtractMethod, Looping
      <3> QED
        BY <3>1
    <2> QED
      BY <2>1, <2>2
  <1>7. ASSUME mode' = "return", stack' = <<>>, ret' = "entry" PROVE Parsed(arg)'
    <2>1. CASE stack = <<>>
      <3>1. LookupHit \/ ScanFailure \/ ParseFailure \/ ParseSuccess
        BY <1>1, <2>1 DEF FileEntryStep, CallFileEntry, UndefinedAbstractMethod, UnresolvedFile,
          EndOfLoop, CalleeFailed, Returned, RegisterSuperclass, AddImport, NoMethodFile,
          ExtractMethod, Looping, LoaderTypeOK
      <3>2. mode = "enter" /\ ~Stored(arg)
        BY <2>1, <3>1 DEF FailuresPropagate, LookupHit, ScanFailure, ParseFailure, ParseSuccess
      <3> QED
        BY <1>7, <3>1, <3>2 DEF LookupHit, ScanFailure, ParseFailure, ParseSuccess, Return
    <2>2. CASE stack # <<>>
      <3>1. 1 \in DOMAIN stack /\ 1 \notin DOMAIN stack'
        BY <1>2, <1>7, <2>2
      <3>2. arg' = stack[1].file /\ UNCHANGED store /\ Parsed(stack[1].file)
        BY <1>3, <3>1 DEF EntriesInUse
      <3> QED
        BY <3>2 DEF Parsed
    <2> QED
      BY <2>1, <2>2
  <1> QED
    BY <1>5, <1>6, <1>7 DEF FailuresPropagate

\* The first call of file_entry for a candidate's file, and its last return.
LEMMA LoadBounds ==
  ASSUME TypeOK, LoadInv, VisitNewFile \/ Loaded
  PROVE  LoadInv'
  <1> USE DEF TypeOK, LoadInv
  <1>1. CASE VisitNewFile
    <2>1. PICK c \in Cand : ~Stored(CandFile[c]) /\ rootFile' = CandFile[c] /\ arg' = CandFile[c]
      BY <1>1 DEF VisitNewFile, VisitTypeOK
    <2>2. phase' = "load" /\ mode' = "enter" /\ rootFiles' = {} /\ stack' = <<>>
          /\ UNCHANGED <<world, store>>
      BY <1>1 DEF VisitNewFile
    <2>3. DOMAIN stack' = {}
      BY <2>2
    <2>4. CallChain'
      BY <2>1, <2>2, <2>3 DEF CallChain
    <2>5. DistinctCalls' /\ EntriesInUse' /\ RootsInStore'
      BY <2>2, <2>3 DEF DistinctCalls, EntriesInUse, RootsInStore
    <2>6. FailuresPropagate'
      BY <2>1, <2>2 DEF FailuresPropagate, Stored
    <2> QED
      BY <2>4, <2>5, <2>6
  <1>2. CASE Loaded
    <2>1. /\ phase' # "load" /\ mode' = "off" /\ stack = <<>> /\ stack' = <<>>
          /\ UNCHANGED <<world, rootFile, rootFiles>>
      BY <1>2 DEF Loaded, ReturnFalse, visitVars
    <2>2. \A f \in File : store'[f].status = store[f].status
      <3>1. \A f \in File : [store[f] EXCEPT !.base = TRUE].status = store[f].status
        BY DEF LoaderTypeOK, Entry
      <3>2. \/ store' = [f \in File |-> IF f \in rootFiles THEN [store[f] EXCEPT !.base = TRUE]
                                                            ELSE store[f]]
            \/ UNCHANGED store
        BY <1>2 DEF Loaded
      <3> QED
        BY <3>1, <3>2
    <2>3. CallChain' /\ FailuresPropagate'
      BY <2>1 DEF CallChain, FailuresPropagate
    <2>4. DistinctCalls' /\ EntriesInUse'
      BY <2>1 DEF DistinctCalls, EntriesInUse
    <2>5. RootsInStore'
      BY <2>1, <2>2 DEF RootsInStore, Stored, LoaderTypeOK
    <2> QED
      BY <2>3, <2>4, <2>5
  <1> QED
    BY <1>1, <1>2

LEMMA LoadInvStep ==
  ASSUME TypeOK, LoadInv, [Next]_vars, \A w \in Worlds : MethodFilesApart(w)
  PROVE  LoadInv'
  <1> USE DEF TypeOK, LoadInv
  <1>1. CASE Load
    <2>1. phase = "load" /\ FileEntryStep
      BY <1>1 DEF Load
    <2> QED
      BY <1>1, <2>1, ChainLoad, RootsLoad, EntriesLoad, FailuresLoad
  <1>2. CASE VisitNewFile \/ Loaded
    BY <1>2, LoadBounds
  <1>3. CASE UNCHANGED vars
    BY <1>3 DEF vars, loaderVars, fileState, visitVars, CallChain, DistinctCalls, EntriesInUse,
      RootsInStore, FailuresPropagate, Failing, Stored, Parsed, Top, NamedFiles, Target, Info
  <1>4. CASE /\ phase # "load" /\ phase' # "load"
             /\ UNCHANGED <<world, mode, arg, ret, stack, rootFile, rootFiles>>
             /\ \A f \in File : store'[f].status = store[f].status
    <2>1. mode = "off" /\ stack = <<>>
      BY <1>4 DEF CallChain
    <2>2. CallChain' /\ FailuresPropagate'
      BY <1>4, <2>1 DEF CallChain, FailuresPropagate
    <2>3. DistinctCalls' /\ EntriesInUse'
      BY <1>4, <2>1 DEF DistinctCalls, EntriesInUse
    <2>4. RootsInStore'
      BY <1>4 DEF RootsInStore, Stored, LoaderTypeOK
    <2> QED
      BY <2>2, <2>3, <2>4
  <1> QED
    BY <1>1, <1>2, <1>3, <1>4, OtherSteps

LEMMA LoadInvInit == Init => LoadInv
  <1> SUFFICES ASSUME Init PROVE LoadInv
    OBVIOUS
  <1>1. mode = "off" /\ phase = "locate" /\ stack = <<>> /\ rootFiles = {} /\ world \in Worlds
    BY DEF Init, LoaderInit
  <1>2. DOMAIN stack = {}
    BY <1>1
  <1> QED
    BY <1>1, <1>2 DEF LoadInv, CallChain, DistinctCalls, EntriesInUse, RootsInStore, FailuresPropagate

LEMMA LoadInvAlways ==
  ASSUME \A w \in Worlds : MethodFilesApart(w)
  PROVE  Spec => []LoadInv
  <1>1. Init => TypeOK /\ LoadInv
    BY InitTyped, LoadInvInit
  <1>2. TypeOK /\ LoadInv /\ [Next]_vars => TypeOK' /\ LoadInv'
    BY NextTyped, LoadInvStep
  <1> QED
    BY <1>1, <1>2, PTL DEF Spec

\* When the first call of file_entry succeeds, no root entry has failed.
LEMMA LoadedWholeHolds == TypeOK /\ LoadInv => LoadedWhole
  <1>1. ASSUME TypeOK, LoadInv, mode = "return", stack = <<>>, ret = "entry"
        PROVE  \A f \in rootFiles : Parsed(f)
    <2>1. DOMAIN stack = {}
      BY <1>1
    <2> QED
      BY <1>1, <2>1 DEF LoadInv, CallChain, FailuresPropagate, Failing
  <1> QED
    BY <1>1 DEF LoadedWhole

---------------------------------------------------------------------------
(* main's loop *)

\* main never uses an iterator that an insertion has invalidated: every visit that
\* may have inserted candidates makes main start over.
THEOREM IteratorAlwaysValid == Spec => []IteratorValid
  <1>1. Init => IterInv
    BY DEF Init, IterInv
  <1>2. IterInv /\ [Next]_vars => IterInv'
    <2> SUFFICES ASSUME IterInv, [Next]_vars PROVE IterInv'
      OBVIOUS
    <2> USE DEF IterInv, visitVars, externalVars
    <2>1. CASE LocateRootIdentifiers \/ VisitKnownFile \/ VisitNewFile \/ Finish \/ Load
      BY <2>1 DEF LocateRootIdentifiers, VisitKnownFile, VisitNewFile, Finish, Load
    <2>2. CASE Loaded \/ ResolveTypeImports \/ ResolvedIdentifiers \/ GenerateTypeConstraints
      BY <2>2 DEF Loaded, ResolveTypeImports, ResolvedIdentifiers, GenerateTypeConstraints,
                  ReturnFalse
    <2>3. ASSUME NEW f \in File, ResolveIdentifiersOf(f) PROVE IterInv'
      BY <2>3 DEF ResolveIdentifiersOf
    <2>4. ASSUME NEW p \in Fn, UnifyOne(p) PROVE IterInv'
      BY <2>4 DEF UnifyOne
    <2>5. CASE Resolve \/ Unified
      BY <2>5 DEF Resolve, Unified, ReturnTrue
    <2>6. CASE UNCHANGED vars
      BY <2>6 DEF vars
    <2> QED
      BY <2>1, <2>2, <2>3, <2>4, <2>5, <2>6 DEF Next, Stopped
  <1>3. IterInv => IteratorValid
    BY DEF IterInv, IteratorValid
  <1> QED
    BY <1>1, <1>2, <1>3, PTL DEF Spec

\* A candidate's file, once in the AstStore, stays there.
LEMMA CandidatesStay ==
  ASSUME TypeOK, LoadInv, [Next]_vars, \A w \in Worlds : MethodFilesApart(w),
         NEW c \in Cand, Stored(CandFile[c])
  PROVE  Stored(CandFile[c])'
  <1> USE DEF TypeOK, LoadInv
  <1>1. CandFile[c] \in File
    BY NamesAssumption
  <1>2. CASE Load
    <2>1. FileEntryStep /\ phase = "load"
      BY <1>2 DEF Load
    <2>2. ExtractMethod => CandFile[c] # arg
      BY <2>1, ExtractedFileUnused
    <2> QED
      BY <1>1, <2>1, <2>2, StoreSteps DEF Stored, Fresh, LoaderTypeOK
  <1>3. CASE VisitNewFile
    BY <1>3 DEF VisitNewFile, Stored
  <1>4. CASE Loaded
    <2>1. [store[CandFile[c]] EXCEPT !.base = TRUE].status = store[CandFile[c]].status
      BY <1>1 DEF LoaderTypeOK, Entry
    <2> QED
      BY <1>1, <1>4, <2>1 DEF Loaded, Stored
  <1>5. CASE UNCHANGED vars
    BY <1>5 DEF vars, loaderVars, fileState, Stored
  <1> QED
    BY <1>1, <1>2, <1>3, <1>4, <1>5, OtherSteps DEF Stored

LEMMA TriedStep ==
  ASSUME TypeOK, LoadInv, TriedInv, [Next]_vars, \A w \in Worlds : MethodFilesApart(w)
  PROVE  TriedInv'
  <1> USE DEF TypeOK
  <1>1. \A c \in Cand : Stored(CandFile[c]) => Stored(CandFile[c])'
    BY CandidatesStay
  <1>2. visited \subseteq Cand
    BY DEF ExternalTypeOK
  <1>3. CASE LocateRootIdentifiers
    BY <1>3 DEF LocateRootIdentifiers, TriedInv
  <1>4. CASE VisitKnownFile
    BY <1>1, <1>2, <1>4 DEF VisitKnownFile, externalVars, TriedInv
  <1>5. CASE VisitNewFile
    BY <1>1, <1>2, <1>5 DEF VisitNewFile, externalVars, TriedInv
  <1>6. CASE Finish
    BY <1>1, <1>2, <1>6 DEF Finish, externalVars, TriedInv
  <1>7. CASE Load
    <2>1. FileEntryStep /\ phase = "load" /\ phase' = "load" /\ UNCHANGED <<visited, remaining>>
      BY <1>7 DEF Load, externalVars
    <2>2. ASSUME mode = "enter", stack = <<>> PROVE Stored(arg)'
      <3>1. LookupHit \/ ScanFailure \/ ParseFailure \/ ParseSuccess
        BY <2>1, <2>2 DEF FileEntryStep, CallFileEntry, UndefinedAbstractMethod, UnresolvedFile,
          EndOfLoop, CalleeFailed, Returned, RegisterSuperclass, AddImport, NoMethodFile,
          ExtractMethod, Looping
      <3> QED
        BY <3>1 DEF LookupHit, ScanFailure, ParseFailure, ParseSuccess, Return, Stored, Fresh,
                    LoaderTypeOK
    <2>3. ASSUME NEW c \in visited, mode = "enter", stack = <<>>, CandFile[c] = arg
          PROVE  Stored(CandFile[c])'
      <3>1. UNCHANGED arg
        BY <2>1, <2>3 DEF FileEntryStep, LookupHit, ScanFailure, ParseFailure, ParseSuccess,
          CallFileEntry, UndefinedAbstractMethod, UnresolvedFile, Return,
          EndOfLoop, CalleeFailed, Returned, RegisterSuperclass, AddImport, NoMethodFile,
          ExtractMethod, Looping
      <3> QED
        BY <2>2, <2>3, <3>1 DEF Stored
    <2> QED
      BY <1>1, <1>2, <2>1, <2>3 DEF TriedInv
  <1>8. CASE Loaded
    <2>1. mode = "return" /\ phase' \in {"imports", "iterate"} /\ UNCHANGED <<visited, remaining>>
      BY <1>8 DEF Loaded, ReturnFalse, externalVars
    <2> QED
      BY <1>1, <1>2, <1>8, <2>1 DEF TriedInv, Loaded
  <1>9. CASE ResolveTypeImports \/ ResolvedIdentifiers \/ GenerateTypeConstraints
    BY <1>1, <1>2, <1>9 DEF ResolveTypeImports, ResolvedIdentifiers, GenerateTypeConstraints,
                            ReturnFalse, externalVars, TriedInv
  <1>10. ASSUME NEW f \in File, ResolveIdentifiersOf(f) PROVE TriedInv'
    BY <1>1, <1>2, <1>10 DEF ResolveIdentifiersOf, TriedInv
  <1>11. ASSUME NEW p \in Fn, UnifyOne(p) PROVE TriedInv'
    BY <1>11 DEF UnifyOne, TriedInv
  <1>12. CASE Resolve
    BY <1>12 DEF Resolve, TriedInv
  <1>13. CASE Unified
    BY <1>13 DEF Unified, ReturnTrue, externalVars, TriedInv
  <1>14. CASE UNCHANGED vars
    BY <1>14 DEF vars, loaderVars, fileState, externalVars, TriedInv, Stored
  <1> QED
    BY <1>3, <1>4, <1>5, <1>6, <1>7, <1>8, <1>9, <1>10, <1>11, <1>12, <1>13, <1>14
    DEF Next, Stopped

\* main ends only after the file of every candidate that was found has been tried,
\* whatever the order in which candidates are inserted and iterated over.
THEOREM AllCandidatesTried ==
  ASSUME \A w \in Worlds : MethodFilesApart(w)
  PROVE  Spec => []CandidatesTried
  <1>1. Init => TypeOK /\ LoadInv /\ TriedInv
    <2>1. Init => TriedInv
      BY DEF Init, ExternalInit, TriedInv
    <2> QED
      BY <2>1, InitTyped, LoadInvInit
  <1>2. TypeOK /\ LoadInv /\ TriedInv /\ [Next]_vars => TypeOK' /\ LoadInv' /\ TriedInv'
    BY NextTyped, LoadInvStep, TriedStep
  <1>3. TriedInv => CandidatesTried
    BY DEF TriedInv, CandidatesTried
  <1> QED
    BY <1>1, <1>2, <1>3, PTL DEF Spec

\* visited_candidates only grows.
LEMMA VisitedGrows ==
  ASSUME TypeOK, [Next]_vars, phase # "locate"
  PROVE  visited \subseteq visited'
  <1>1. CASE VisitKnownFile \/ VisitNewFile \/ Finish \/ Load \/ Loaded \/ ResolveTypeImports
             \/ ResolvedIdentifiers \/ GenerateTypeConstraints \/ Unified
    BY <1>1 DEF VisitKnownFile, VisitNewFile, Finish, Load, Loaded, ResolveTypeImports,
                ResolvedIdentifiers, GenerateTypeConstraints, Unified, externalVars
  <1>2. CASE Resolve
    BY <1>2 DEF Resolve, ResolveExternalFunctions
  <1>3. ASSUME NEW f \in File, ResolveIdentifiersOf(f) PROVE visited \subseteq visited'
    BY <1>3 DEF ResolveIdentifiersOf
  <1>4. ASSUME NEW p \in Fn, UnifyOne(p) PROVE visited \subseteq visited'
    BY <1>4 DEF UnifyOne, CheckFunction
  <1>5. CASE LocateRootIdentifiers
    BY <1>5 DEF LocateRootIdentifiers
  <1>6. CASE UNCHANGED vars
    BY <1>6 DEF vars, externalVars
  <1> QED
    BY <1>1, <1>2, <1>3, <1>4, <1>5, <1>6 DEF Next, Stopped

\* mtype implements a worklist of files: a file that is known stays known, one that has
\* been tried stays tried, and the analysis ends only when all known files are.
THEOREM ImplementsWorklist ==
  ASSUME \A w \in Worlds : MethodFilesApart(w)
  PROVE  Spec => WorklistSpec
  <1> DEFINE known == {CandFile[c] : c \in visited}
             tried == {f \in known : Stored(f)}
             LocateInv == phase = "locate" => visited = {}
             Inv == TypeOK /\ LoadInv /\ TriedInv /\ LocateInv
  <1>1. Init => Inv /\ W!Init
    <2>1. Init => TriedInv /\ LocateInv /\ W!Init
      BY DEF Init, ExternalInit, TriedInv, W!Init
    <2> QED
      BY <2>1, InitTyped, LoadInvInit
  <1>2. Inv /\ [Next]_vars => Inv'
    <2>1. ASSUME Inv, [Next]_vars PROVE LocateInv'
      <3>1. phase' = "locate" => UNCHANGED vars
        BY <2>1 DEF Next, LocateRootIdentifiers, VisitKnownFile, VisitNewFile, Finish, Load,
          Loaded, ResolveTypeImports, ResolveIdentifiersOf, ResolvedIdentifiers,
          GenerateTypeConstraints, Resolve, UnifyOne, Unified, Stopped, ReturnFalse, ReturnTrue
      <3> QED
        BY <2>1, <3>1 DEF vars, externalVars
    <2> QED
      BY <2>1, NextTyped, LoadInvStep, TriedStep
  <1>3. Inv /\ [Next]_vars => [W!Work \/ W!Finish]_<<known, tried, phase = "done">>
    <2> SUFFICES ASSUME Inv, [Next]_vars
                 PROVE  \/ W!Work \/ W!Finish
                        \/ UNCHANGED <<known, tried, phase = "done">>
      OBVIOUS
    <2>1. visited \subseteq Cand /\ visited' \subseteq Cand
      <3>1. TypeOK'
        BY NextTyped
      <3> QED
        BY <3>1 DEF TypeOK, ExternalTypeOK
    <2>2. visited \subseteq visited'
      BY VisitedGrows
    <2>3. known \subseteq File /\ known' \subseteq File /\ known \subseteq known'
      BY <2>1, <2>2, NamesAssumption
    <2>4. tried \subseteq tried'
      <3>1. \A c \in Cand : Stored(CandFile[c]) => Stored(CandFile[c])'
        BY CandidatesStay
      <3> QED
        BY <2>1, <2>2, <3>1 DEF Stored
    <2>5. CASE phase = "done"
      <3>1. UNCHANGED vars
        BY <2>5 DEF Next, LocateRootIdentifiers, VisitKnownFile, VisitNewFile, Finish, Load,
          Loaded, ResolveTypeImports, ResolveIdentifiersOf, ResolvedIdentifiers,
          GenerateTypeConstraints, Resolve, UnifyOne, Unified, Stopped
      <3> QED
        BY <3>1 DEF vars, loaderVars, fileState, externalVars, Stored
    <2>6. CASE Finish
      <3>1. known \subseteq tried
        BY <2>6 DEF TriedInv, Finish
      <3>2. phase = "iterate" /\ phase' = "done" /\ UNCHANGED <<visited, store>>
        BY <2>6 DEF Finish, loaderVars, fileState, externalVars
      <3> QED
        BY <3>1, <3>2 DEF W!Finish, Stored
    <2>7. CASE phase # "done" /\ ~Finish
      <3>1. phase' # "done"
        BY <2>7 DEF Next, LocateRootIdentifiers, VisitKnownFile, VisitNewFile, Load,
          Loaded, ResolveTypeImports, ResolveIdentifiersOf, ResolvedIdentifiers, vars,
          GenerateTypeConstraints, Resolve, UnifyOne, Unified, Stopped, ReturnFalse, ReturnTrue
      <3> QED
        BY <2>3, <2>4, <2>7, <3>1 DEF W!Work
    <2> QED
      BY <2>5, <2>6, <2>7
  <1> HIDE DEF Inv
  <1> QED
    BY <1>1, <1>2, <1>3, PTL DEF Spec, WorklistSpec, W!Spec

---------------------------------------------------------------------------
(* The stages of an entry *)

\* An entry that is not new keeps its stages while files are loaded.
LEMMA StageLoad ==
  ASSUME TypeOK, StageInv, Load
  PROVE  StageInv'
  <1>1. LoaderTypeOK /\ FileEntryStep /\ phase = "load" /\ phase' = "load"
    BY DEF Load, TypeOK
  <1>2. \/ UNCHANGED store
        \/ \E s \in {"absent", "failed", "parsed"} :
             store' = [store EXCEPT ![arg] = Fresh(s)]
    BY <1>1, StoreSteps
  <1>3. store \in [File -> Entry] /\ arg \in File
    BY <1>1 DEF LoaderTypeOK
  <1>4. ASSUME NEW f \in File
        PROVE  /\ store'[f].gen => store'[f].ids
               /\ store'[f].ids => store'[f].base
               /\ store'[f].base => store'[f].status = "parsed"
    BY <1>2, <1>3 DEF StageInv, StageOrder, Parsed, Fresh
  <1>5. StageOrder'
    BY <1>4 DEF StageOrder, Parsed
  <1> QED
    BY <1>1, <1>5 DEF StageInv

\* Each stage of a visit is taken by entries that have been through the one before.
LEMMA StageStep ==
  ASSUME TypeOK, StageInv, [Next]_vars
  PROVE  StageInv'
  <1>1. store \in [File -> Entry] /\ rootFile \in File /\ rootFiles \subseteq File
    BY DEF TypeOK, LoaderTypeOK, VisitTypeOK
  <1>2. CASE Load
    BY <1>2, StageLoad
  <1>3. CASE VisitNewFile \/ VisitKnownFile \/ LocateRootIdentifiers \/ Finish \/ UNCHANGED vars
    BY <1>3 DEF VisitNewFile, VisitKnownFile, LocateRootIdentifiers, Finish, vars, loaderVars,
                fileState, StageInv, StageOrder, Parsed
  <1>4. CASE Resolve \/ Unified
    BY <1>4 DEF Resolve, Unified, ReturnTrue, loaderVars, fileState, StageInv, StageOrder, Parsed
  <1>5. ASSUME NEW p \in Fn, UnifyOne(p) PROVE StageInv'
    BY <1>5 DEF UnifyOne, loaderVars, fileState, StageInv, StageOrder, Parsed
  <1>6. CASE Loaded
    <2>1. CASE phase' = "imports"
      <3>1. /\ \A f \in rootFiles : Parsed(f)
            /\ store' = [f \in File |-> IF f \in rootFiles THEN [store[f] EXCEPT !.base = TRUE]
                                                           ELSE store[f]]
            /\ rootFiles' = rootFiles
        BY <1>6, <2>1 DEF Loaded, ReturnFalse
      <3>2. ASSUME NEW f \in File
            PROVE  /\ store'[f].gen = store[f].gen /\ store'[f].ids = store[f].ids
                   /\ store'[f].status = store[f].status
                   /\ store'[f].base = (store[f].base \/ f \in rootFiles)
        BY <1>1, <3>1 DEF Entry
      <3> QED
        BY <1>1, <2>1, <3>1, <3>2 DEF StageInv, StageOrder, Parsed
    <2>2. CASE phase' # "imports"
      BY <1>6, <2>2 DEF Loaded, ReturnFalse, StageInv, StageOrder, Parsed
    <2> QED
      BY <2>1, <2>2
  <1>7. CASE ResolveTypeImports
    <2>1. ASSUME NEW f \in File
          PROVE  /\ store'[f].gen = store[f].gen /\ store'[f].ids = store[f].ids
                 /\ store'[f].status = store[f].status /\ store'[f].base = store[f].base
      BY <1>1, <1>7 DEF ResolveTypeImports, Entry
    <2>2. phase = "imports" /\ phase' \in {"ids", "iterate"} /\ rootFiles' = rootFiles
      BY <1>7 DEF ResolveTypeImports, ReturnFalse
    <2> QED
      BY <1>1, <2>1, <2>2 DEF StageInv, StageOrder, Parsed
  <1>8. ASSUME NEW g \in File, ResolveIdentifiersOf(g) PROVE StageInv'
    <2>1. ASSUME NEW f \in File
          PROVE  /\ store'[f].gen = store[f].gen /\ store'[f].ids = (store[f].ids \/ f = g)
                 /\ store'[f].status = store[f].status /\ store'[f].base = store[f].base
      BY <1>1, <1>8 DEF ResolveIdentifiersOf, Entry
    <2>2. phase = "ids" /\ phase' = "ids" /\ rootFiles' = rootFiles /\ g \in rootFiles
      BY <1>8 DEF ResolveIdentifiersOf, Unresolved
    <2> QED
      BY <1>1, <2>1, <2>2 DEF StageInv, StageOrder, Parsed
  <1>9. CASE ResolvedIdentifiers
    <2>1. phase = "ids" /\ phase' \in {"constraints", "iterate"} /\ UNCHANGED <<rootFiles, store>>
          /\ \A f \in rootFiles : store[f].ids
      BY <1>9 DEF ResolvedIdentifiers, Unresolved, fileState, ReturnFalse
    <2> QED
      BY <1>1, <2>1 DEF StageInv, StageOrder, Parsed
  <1>10. CASE GenerateTypeConstraints
    <2>1. ASSUME NEW f \in File
          PROVE  /\ store'[f].gen = (store[f].gen \/ f \in rootFiles)
                 /\ store'[f].ids = store[f].ids
                 /\ store'[f].status = store[f].status /\ store'[f].base = store[f].base
      BY <1>1, <1>10 DEF GenerateTypeConstraints, Entry
    <2>2. phase = "constraints" /\ phase' = "resolve"
      BY <1>10 DEF GenerateTypeConstraints
    <2> QED
      BY <1>1, <2>1, <2>2 DEF StageInv, StageOrder, Parsed
  <1> QED
    BY <1>2, <1>3, <1>4, <1>5, <1>6, <1>7, <1>8, <1>9, <1>10 DEF Next, Stopped

\* An entry goes through its stages in order, though entries are shared by visits that
\* fail at different stages: constraints are generated only from resolved identifiers,
\* these are resolved only in the base scope, and only of files that parsed.
THEOREM StagesInOrder == Spec => []StageOrder
  <1>1. Init => TypeOK /\ StageInv
    BY InitTyped DEF Init, LoaderInit, Fresh, StageInv, StageOrder
  <1>2. TypeOK /\ StageInv /\ [Next]_vars => TypeOK' /\ StageInv'
    BY NextTyped, StageStep
  <1>3. StageInv => StageOrder
    BY DEF StageInv
  <1> QED
    BY <1>1, <1>2, <1>3, PTL DEF Spec

---------------------------------------------------------------------------
(* The pending external functions *)

\* Only the unifier and the passes over the pending functions touch them.
LEMMA ExternalSteps ==
  ASSUME [Next]_vars
  PROVE  \/ Resolve
         \/ \E p \in Fn : UnifyOne(p)
         \/ UNCHANGED <<resolved, keys, pending, visitedPairs, checked, called, unresolved>>
  <1> USE DEF externalVars
  <1>1. CASE LocateRootIdentifiers \/ VisitKnownFile \/ VisitNewFile \/ Finish \/ Load \/ Loaded
    BY <1>1 DEF LocateRootIdentifiers, VisitKnownFile, VisitNewFile, Finish, Load, Loaded
  <1>2. CASE ResolveTypeImports \/ ResolvedIdentifiers \/ GenerateTypeConstraints \/ Unified
    BY <1>2 DEF ResolveTypeImports, ResolvedIdentifiers, GenerateTypeConstraints, Unified
  <1>3. CASE \E f \in File : ResolveIdentifiersOf(f)
    BY <1>3 DEF ResolveIdentifiersOf
  <1>4. CASE UNCHANGED vars
    BY <1>4 DEF vars
  <1> QED
    BY <1>1, <1>2, <1>3, <1>4 DEF Next, Stopped

\* A function that is looked up gets a type or an error at once, or becomes pending.
LEMMA PendingCheck ==
  ASSUME TypeOK, PendingInv, NEW p \in Fn, CheckFunction(p)
  PROVE  PendingInv'
  <1>1. /\ pending \in [Cand -> SUBSET Fn] /\ p \notin checked
        /\ checked' = checked \cup {p} /\ visitedPairs' = visitedPairs
    BY DEF CheckFunction, CanCheck, TypeOK, ExternalTypeOK
  <1>2. p \notin called /\ p \notin unresolved /\ \A c \in Cand : p \notin pending[c]
    BY <1>1 DEF PendingInv
  <1>3. \/ unresolved' = unresolved \cup {p} /\ UNCHANGED <<called, keys, pending>>
        \/ called' = called \cup {p} /\ UNCHANGED <<unresolved, keys, pending>>
        \/ \E c \in Cand : /\ keys' = keys \cup {c}
                           /\ pending' = [pending EXCEPT ![c] = @ \cup {p}]
                           /\ UNCHANGED <<called, unresolved>>
    BY DEF CheckFunction
  <1>4. CASE unresolved' = unresolved \cup {p} /\ UNCHANGED <<called, keys, pending>>
    BY <1>1, <1>2, <1>4 DEF PendingInv, PendingOnce
  <1>5. CASE called' = called \cup {p} /\ UNCHANGED <<unresolved, keys, pending>>
    BY <1>1, <1>2, <1>5 DEF PendingInv, PendingOnce
  <1>6. ASSUME NEW c \in Cand, keys' = keys \cup {c}, UNCHANGED <<called, unresolved>>,
               pending' = [pending EXCEPT ![c] = @ \cup {p}]
        PROVE  PendingInv'
    <2>1. \A d \in Cand : pending'[d] = IF d = c THEN pending[d] \cup {p} ELSE pending[d]
      BY <1>1, <1>6
    <2>2. PendingOnce'
      BY <1>1, <1>2, <1>6, <2>1 DEF PendingInv, PendingOnce
    <2> QED
      BY <1>1, <1>2, <1>6, <2>1, <2>2 DEF PendingInv
  <1> QED
    BY <1>3, <1>4, <1>5, <1>6

\* A pass takes functions away from a candidate only to give them a type or an error.
LEMMA PendingResolve ==
  ASSUME TypeOK, PendingInv, ResolveExternalFunctions
  PROVE  PendingInv'
  <1> DEFINE loaded  == {c \in keys : Parsed(CandFile[c])}
             missing == {c \in loaded : ~HasHandle(c)}
             ready   == {c \in loaded : HasHandle(c) /\ HasType(c)}
             pairs   == (UNION {{c} \X pending[c] : c \in ready}) \ visitedPairs
  <1>1. /\ visitedPairs' = visitedPairs \cup pairs
        /\ called' = called \cup {pair[2] : pair \in pairs}
        /\ unresolved' = unresolved \cup UNION {pending[c] : c \in missing}
        /\ pending' = [c \in Cand |-> IF c \in missing \cup ready THEN {} ELSE pending[c]]
        /\ UNCHANGED <<keys, checked>>
    BY DEF ResolveExternalFunctions
  <1>2. /\ keys \subseteq Cand /\ pending \in [Cand -> SUBSET Fn]
        /\ missing \subseteq keys /\ ready \subseteq keys /\ missing \cap ready = {}
        /\ visitedPairs \subseteq Cand \X Fn
    BY DEF TypeOK, ExternalTypeOK
  <1>3. \A c \in ready, p \in Fn : p \in pending[c] => <<c, p>> \in pairs
    BY <1>2 DEF PendingInv, PendingOnce
  <1>4. \A pair \in pairs : /\ pair[1] \in ready /\ pair[2] \in pending[pair[1]]
                            /\ pair[2] \in Fn
    BY <1>2
  <1> HIDE DEF loaded, missing, ready, pairs
  <1>5. \A p \in Fn : p \in called' <=> p \in called \/ \E c \in ready : p \in pending[c]
    <2>1. ASSUME NEW p \in Fn, p \in called' PROVE p \in called \/ \E c \in ready : p \in pending[c]
      BY <1>1, <1>4, <2>1
    <2>2. ASSUME NEW p \in Fn, NEW c \in ready, p \in pending[c] PROVE p \in called'
      <3>1. <<c, p>> \in pairs /\ <<c, p>>[2] = p
        BY <1>3, <2>2
      <3> QED
        BY <1>1, <3>1
    <2> QED
      BY <1>1, <2>1, <2>2
  <1>6. \A p : p \in unresolved' <=> p \in unresolved \/ \E c \in missing : p \in pending[c]
    BY <1>1
  <1>7. \A c \in Cand : pending'[c] = IF c \in missing \/ c \in ready THEN {} ELSE pending[c]
    BY <1>1
  <1>8. checked \subseteq Fn /\ called \subseteq Fn
    BY DEF TypeOK, ExternalTypeOK
  <1>9. called' \subseteq Fn
    BY <1>1, <1>4, <1>8
  <1>10. PendingOnce'
    BY <1>1, <1>2, <1>5, <1>6, <1>7, <1>8 DEF PendingInv, PendingOnce
  <1>11. called' \subseteq checked' /\ unresolved' \subseteq checked'
    BY <1>1, <1>2, <1>5, <1>6, <1>8, <1>9 DEF PendingInv
  <1>12. \A c \in Cand : pending'[c] \subseteq checked' /\ (pending'[c] # {} => c \in keys')
    BY <1>1, <1>7 DEF PendingInv
  <1>13. \A pair \in visitedPairs' : pair[2] \in called'
    BY <1>1 DEF PendingInv
  <1> QED
    BY <1>10, <1>11, <1>12, <1>13 DEF PendingInv

LEMMA PendingStep ==
  ASSUME TypeOK, PendingInv, [Next]_vars
  PROVE  PendingInv'
  <1>1. CASE Resolve
    BY <1>1, PendingResolve DEF Resolve
  <1>2. ASSUME NEW p \in Fn, UnifyOne(p) PROVE PendingInv'
    BY <1>2, PendingCheck DEF UnifyOne
  <1>3. CASE UNCHANGED <<resolved, keys, pending, visitedPairs, checked, called, unresolved>>
    BY <1>3 DEF PendingInv, PendingOnce
  <1> QED
    BY <1>1, <1>2, <1>3, ExternalSteps

LEMMA PendingInit == Init => PendingInv
  BY DEF Init, ExternalInit, PendingInv, PendingOnce

\* A function that was looked up is never lost and never dealt with twice: it is pending
\* on one candidate, or it has the type of its callee, or an error.
THEOREM NeverLost == Spec => []PendingOnce
  <1>1. Init => TypeOK /\ PendingInv
    BY InitTyped, PendingInit
  <1>2. TypeOK /\ PendingInv /\ [Next]_vars => TypeOK' /\ PendingInv'
    BY NextTyped, PendingStep
  <1>3. PendingInv => PendingOnce
    BY DEF PendingInv
  <1> QED
    BY <1>1, <1>2, <1>3, PTL DEF Spec

---------------------------------------------------------------------------
(* The loop of unify_while_able *)

LEMMA FiniteKeys ==
  ASSUME TypeOK
  PROVE  /\ IsFiniteSet(keys) /\ Cardinality(keys) \in Nat
         /\ \A before \in SUBSET keys : Cardinality(keys) = Cardinality(before) => before = keys
  <1>1. keys \in SUBSET Cand
    BY DEF TypeOK, ExternalTypeOK
  <1>2. IsFiniteSet(keys)
    BY <1>1, CandAssumption, FS_Subset
  <1> QED
    BY <1>2, FS_Subset, FS_CardinalityType

\* What a pass resolves stays resolved, and nothing becomes pending on it again.
LEMMA QuiescentStep ==
  ASSUME TypeOK, PendingInv, QuiescentInv, [Next]_vars
  PROVE  QuiescentInv'
  <1>1. keys \subseteq Cand /\ pending \in [Cand -> SUBSET Fn]
    BY DEF TypeOK, ExternalTypeOK
  <1>2. CASE Resolve
    <2> DEFINE loaded  == {c \in keys : Parsed(CandFile[c])}
               missing == {c \in loaded : ~HasHandle(c)}
               ready   == {c \in loaded : HasHandle(c) /\ HasType(c)}
    <2>1. /\ numPending' = Cardinality(keys) /\ UNCHANGED <<keys, typed, world, store, scans>>
          /\ resolved' = resolved \cup ready
          /\ pending' = [c \in Cand |-> IF c \in missing \cup ready THEN {} ELSE pending[c]]
      BY <1>2 DEF Resolve, ResolveExternalFunctions, loaderVars, fileState
    <2>2. ASSUME NEW c \in keys, Resolvable(c)' PROVE c \in resolved' /\ pending'[c] = {}
      <3>1. c \in ready
        BY <2>1, <2>2 DEF Resolvable, Parsed, HasHandle, HasType, ThisParse, Info
      <3> QED
        BY <1>1, <2>1, <3>1
    <2> HIDE DEF loaded, missing, ready
    <2>3. keys \in SUBSET keys' /\ Cardinality(keys) = numPending'
      BY <2>1
    <2> QED
      BY <2>2, <2>3 DEF QuiescentInv
  <1>3. ASSUME NEW p \in Fn, UnifyOne(p) PROVE QuiescentInv'
    <2>1. phase = "unify" /\ CheckFunction(p)
          /\ UNCHANGED <<numPending, typed, resolved, world, store, scans>>
      BY <1>3 DEF UnifyOne, CheckFunction, loaderVars, fileState, visitVars
    <2>2. PICK before \in SUBSET keys :
            /\ Cardinality(before) = numPending
            /\ \A c \in before : Resolvable(c) => c \in resolved /\ pending[c] = {}
      BY <2>1 DEF QuiescentInv
    <2>3. keys \subseteq keys' /\ \A c \in Cand : c \in resolved => pending'[c] = pending[c]
      BY <1>1, <2>1 DEF CheckFunction
    <2>4. ASSUME NEW c \in before, Resolvable(c)' PROVE c \in resolved' /\ pending'[c] = {}
      <3>1. Resolvable(c)
        BY <2>1, <2>4 DEF Resolvable, Parsed, HasHandle, HasType, ThisParse, Info
      <3> QED
        BY <1>1, <2>1, <2>2, <2>3, <3>1
    <2>5. before \in SUBSET keys' /\ Cardinality(before) = numPending'
      BY <2>1, <2>2, <2>3
    <2> QED
      BY <2>4, <2>5 DEF QuiescentInv
  <1>4. CASE UNCHANGED vars
    BY <1>4 DEF vars, loaderVars, fileState, externalVars, visitVars, QuiescentInv, Resolvable,
                Parsed, HasHandle, HasType, ThisParse, Info
  <1>5. CASE LocateRootIdentifiers \/ VisitKnownFile \/ VisitNewFile \/ Finish \/ Load \/ Loaded
    <2>1. phase' # "unify"
      BY <1>5 DEF LocateRootIdentifiers, VisitKnownFile, VisitNewFile, Finish, Load, Loaded,
                  ReturnFalse
    <2> QED
      BY <2>1 DEF QuiescentInv
  <1>6. CASE ResolveTypeImports \/ ResolvedIdentifiers \/ GenerateTypeConstraints \/ Unified
    <2>1. phase' # "unify"
      BY <1>6 DEF ResolveTypeImports, ResolvedIdentifiers, GenerateTypeConstraints, Unified,
                  ReturnFalse, ReturnTrue
    <2> QED
      BY <2>1 DEF QuiescentInv
  <1>7. ASSUME NEW f \in File, ResolveIdentifiersOf(f) PROVE QuiescentInv'
    BY <1>7 DEF ResolveIdentifiersOf, QuiescentInv
  <1> QED
    BY <1>2, <1>3, <1>4, <1>5, <1>6, <1>7 DEF Next, Stopped

\* unify_while_able ends when a round has not changed the number of candidates with
\* pending functions.  By then no function is pending on a candidate whose type is known,
\* though the number is that of the keys of a map, which are never removed.
THEOREM NoTypeIsMissed == Spec => Quiescent
  <1> DEFINE Inv == TypeOK /\ PendingInv /\ QuiescentInv
             Ended == phase = "unify" /\ phase' = "iterate" =>
                        \A c \in Cand : Resolvable(c) => pending[c] = {}
  <1>1. Init => Inv
    BY InitTyped, PendingInit DEF Init, QuiescentInv
  <1>2. Inv /\ [Next]_vars => Inv'
    BY NextTyped, PendingStep, QuiescentStep
  <1>3. Inv /\ [Next]_vars => [Ended]_vars
    <2> SUFFICES ASSUME Inv, [Next]_vars, phase = "unify", phase' = "iterate",
                        NEW c \in Cand, Resolvable(c)
                 PROVE  pending[c] = {}
      OBVIOUS
    <2>1. Unified
      BY DEF Next, LocateRootIdentifiers, VisitKnownFile, VisitNewFile, Finish, Load, Loaded,
        ResolveTypeImports, ResolveIdentifiersOf, ResolvedIdentifiers, GenerateTypeConstraints,
        Resolve, UnifyOne, Stopped, vars
    <2>2. Cardinality(keys) = numPending
      BY <2>1 DEF Unified
    <2>3. PICK before \in SUBSET keys :
            /\ Cardinality(before) = numPending
            /\ \A d \in before : Resolvable(d) => d \in resolved /\ pending[d] = {}
      BY DEF QuiescentInv
    <2>4. before = keys
      BY <2>2, <2>3, FiniteKeys
    <2>5. c \in keys \/ pending[c] = {}
      BY DEF PendingInv
    <2> QED
      BY <2>3, <2>4, <2>5
  <1> HIDE DEF Inv
  <1> QED
    BY <1>1, <1>2, <1>3, PTL DEF Spec, Quiescent

---------------------------------------------------------------------------
(* The files of external methods *)

\* A method's file is asked for by the loop over the methods of its class, at that method.
LEMMA CalledAsMethod ==
  ASSUME TypeOK, CallChain, phase = "load", mode \in {"enter", "return"},
         \A w \in Worlds : MethodFilesApart(w),
         NEW g \in File, NEW i \in DOMAIN Info(g).methods, Info(g).methods[i].file = arg
  PROVE  /\ stack # <<>> /\ Top = stack[Len(stack)] /\ Len(stack) \in DOMAIN stack
         /\ Top.step = "methods" /\ Top.file = g /\ Top.i = i
  <1> USE DEF TypeOK
  <1>1. arg # None
    BY NamesAssumption DEF LoaderTypeOK
  <1>2. NamedOnlyBy(world, arg, g, i)
    BY <1>1 DEF CallChain, MethodFilesApart, Info
  <1>3. stack # <<>>
    BY <1>2 DEF CallChain, NamedOnlyBy
  <1>4. Len(stack) \in DOMAIN stack /\ Top = stack[Len(stack)] /\ Top \in Frame
    BY <1>3, DomainOfStack DEF Top
  <1>5. Top.file \in File /\ Top.i \in Nat \ {0} /\ Top.step \in Step
    BY <1>4 DEF Frame
  <1> DEFINE named == Named(world.file[Top.file], Top.step)
  <1>6. Top.i <= Len(named) /\ named[Top.i] = arg
    BY <1>3 DEF CallChain, NamedFiles, Target, Info
  <1>7. named \in Seq(FileOrNone)
    BY <1>4, TargetTyped DEF NamedFiles, Info
  <1>8. Top.i \in DOMAIN named
    BY <1>5, <1>6, <1>7
  <1>9. Top.step = "methods"
    <2>1. Top.step # "methods" =>
            named \in {world.file[Top.file].supers, PreImports, world.file[Top.file].imports}
      BY <1>5 DEF Named, Step
    <2> QED
      BY <1>2, <1>5, <1>6, <1>8, <2>1 DEF NamedOnlyBy
  <1>10. Top.i \in DOMAIN world.file[Top.file].methods
         /\ world.file[Top.file].methods[Top.i].file = arg
    BY <1>3, <1>9, MethodCalled DEF Info
  <1> QED
    BY <1>2, <1>3, <1>4, <1>5, <1>9, <1>10 DEF NamedOnlyBy

\* No step changes the program that mtype runs on.
LEMMA WorldKept ==
  ASSUME TypeOK, [Next]_vars
  PROVE  UNCHANGED world
  <1>1. CASE Load
    BY <1>1 DEF Load, FileEntryStep, LookupHit, ScanFailure, ParseFailure, ParseSuccess,
      CallFileEntry, UndefinedAbstractMethod, UnresolvedFile, EndOfLoop, CalleeFailed,
      RegisterSuperclass, AddImport, NoMethodFile, ExtractMethod
  <1>2. CASE VisitNewFile \/ Loaded \/ UNCHANGED vars
    BY <1>2 DEF VisitNewFile, Loaded, vars, loaderVars
  <1> QED
    BY <1>1, <1>2, OtherSteps

\* A method's file is never analysed as a file of its own while files are loaded.
LEMMA MethodsLoad ==
  ASSUME TypeOK, LoadInv, MethodsInv, Load, \A w \in Worlds : MethodFilesApart(w)
  PROVE  MethodsInv'
  <1> USE DEF TypeOK, LoadInv
  <1>1. FileEntryStep /\ phase = "load" /\ phase' = "load"
    BY DEF Load
  <1>2. UNCHANGED world
    BY WorldKept DEF Next
  <1>3. rootFiles \subseteq File /\ arg \in File /\ store \in [File -> Entry]
    BY DEF LoaderTypeOK
  <1> SUFFICES ASSUME NEW m \in File, IsMethodFile(m)
               PROVE  /\ ~store'[m].gen
                      /\ m \in rootFiles' => Failing' \/ Loading(m)'
    BY <1>1, <1>2 DEF MethodsInv, IsMethodFile, Info
  <1>4. ~store[m].gen /\ (m \in rootFiles => Failing \/ Loading(m))
    BY <1>1 DEF MethodsInv
  <1>5. ~store'[m].gen
    BY <1>1, <1>3, <1>4, StoreSteps DEF Fresh
  <1>6. ASSUME m \in rootFiles, m \in rootFiles' PROVE Failing' \/ Loading(m)'
    <2>1. CASE Failing
      BY <1>1, <2>1, FailingKept
    <2>2. ASSUME NEW k \in DOMAIN stack, stack[k].file = m PROVE Loading(m)'
      <3>1. CASE k \in DOMAIN stack'
        <4>1. stack'[k].file = stack[k].file
          BY <1>1, <3>1, StackKept
        <4> QED
          BY <2>2, <3>1, <4>1 DEF Loading
      <3>2. CASE k \notin DOMAIN stack'
        <4>1. mode' = "return" /\ arg' = stack[k].file
          BY <1>1, <3>2, StackKept
        <4> QED
          BY <2>2, <4>1 DEF Loading
      <3> QED
        BY <3>1, <3>2
    <2>3. ASSUME mode = "return", arg = m PROVE Failing'
      <3>1. PICK g \in File : \E i \in DOMAIN Info(g).methods : Info(g).methods[i].file = arg
        BY <2>3 DEF IsMethodFile
      <3>2. stack # <<>> /\ Top.step = "methods" /\ Len(stack) \in DOMAIN stack
        BY <1>1, <2>3, <3>1, CalledAsMethod
      <3>3. ~ExtractMethod
        BY <1>3, <1>6, <2>3 DEF ExtractMethod
      <3>4. NoMethodFile
        BY <1>1, <2>3, <3>2, <3>3 DEF FileEntryStep, LookupHit, ScanFailure, ParseFailure,
          ParseSuccess, CallFileEntry, UndefinedAbstractMethod, UnresolvedFile, Looping, EndOfLoop,
          CalleeFailed, RegisterSuperclass, AddImport, Returned
      <3>5. DOMAIN stack' = DOMAIN stack /\ ~stack'[Len(stack)].ok
        <4>1. Advance(FALSE)
          BY <3>4 DEF NoMethodFile
        <4> QED
          BY <3>2, <4>1, Advanced
      <3> QED
        BY <3>2, <3>5 DEF Failing
    <2> QED
      BY <1>4, <1>6, <2>1, <2>2, <2>3 DEF Loading
  <1>7. ASSUME m \notin rootFiles, m \in rootFiles' PROVE Loading(m)'
    <2>1. (LookupHit \/ ParseSuccess) /\ m = arg
      BY <1>1, <1>3, <1>7, StoreSteps
    <2>2. CASE LookupHit
      BY <2>1, <2>2 DEF LookupHit, Return, Loading
    <2>3. CASE ParseSuccess
      <3>1. PICK t : t.file = arg /\ stack' = Append(stack, t)
        BY <2>3 DEF ParseSuccess
      <3>2. stack' \in Seq(Frame) /\ stack \in Seq(Frame)
        BY <1>1, FileEntryTyped DEF LoaderTypeOK
      <3>3. Len(stack) + 1 \in DOMAIN stack' /\ stack'[Len(stack) + 1] = t
        BY <3>1, <3>2
      <3> QED
        BY <2>1, <3>1, <3>3 DEF Loading
    <2> QED
      BY <2>1, <2>2, <2>3
  <1> QED
    BY <1>5, <1>6, <1>7

LEMMA MethodsStep ==
  ASSUME TypeOK, LoadInv, MethodsInv, [Next]_vars, \A w \in Worlds : MethodFilesApart(w)
  PROVE  MethodsInv'
  <1> USE DEF TypeOK, LoadInv
  <1>1. UNCHANGED world /\ store \in [File -> Entry] /\ rootFile \in File /\ rootFiles \subseteq File
    BY WorldKept DEF LoaderTypeOK, VisitTypeOK
  <1>2. CASE Load
    BY <1>2, MethodsLoad
  <1> SUFFICES ASSUME ~Load, NEW m \in File, IsMethodFile(m)
               PROVE  /\ ~store'[m].gen
                      /\ phase' = "load" /\ m \in rootFiles' => Failing' \/ Loading(m)'
                      /\ phase' \in {"imports", "ids", "constraints"} => m \notin rootFiles'
    BY <1>1, <1>2 DEF MethodsInv, IsMethodFile, Info
  <1>3. /\ ~store[m].gen
        /\ phase = "load" /\ m \in rootFiles => Failing \/ Loading(m)
        /\ phase \in {"imports", "ids", "constraints"} => m \notin rootFiles
    BY DEF MethodsInv
  <1>4. CASE LocateRootIdentifiers \/ VisitKnownFile \/ Finish \/ Resolve \/ Unified
    BY <1>3, <1>4 DEF LocateRootIdentifiers, VisitKnownFile, Finish, Resolve, Unified, ReturnTrue,
      loaderVars, fileState
  <1>5. CASE VisitNewFile
    BY <1>3, <1>5 DEF VisitNewFile
  <1>6. CASE Loaded
    <2>1. ~store'[m].gen
      BY <1>1, <1>3, <1>6 DEF Loaded, Entry
    <2>2. ASSUME phase' \in {"imports", "ids", "constraints"}, m \in rootFiles' PROVE FALSE
      <3>1. phase = "load" /\ mode = "return" /\ stack = <<>> /\ ret = "entry"
            /\ rootFiles' = rootFiles
        BY <1>6, <2>2 DEF Loaded, ReturnFalse
      <3>2. DOMAIN stack = {}
        BY <3>1
      <3>3. ~Failing
        BY <3>1, <3>2 DEF Failing, FailuresPropagate
      <3>4. arg = m
        BY <1>3, <2>2, <3>1, <3>2, <3>3 DEF Loading
      <3>5. PICK g \in File : \E i \in DOMAIN Info(g).methods : Info(g).methods[i].file = arg
        BY <3>4 DEF IsMethodFile
      <3> QED
        BY <3>1, <3>5, CalledAsMethod
    <2> QED
      BY <1>6, <2>1, <2>2 DEF Loaded, ReturnFalse
  <1>7. CASE ResolveTypeImports
    BY <1>1, <1>3, <1>7 DEF ResolveTypeImports, ReturnFalse, Entry
  <1>8. ASSUME NEW f \in File, ResolveIdentifiersOf(f)
        PROVE  /\ ~store'[m].gen /\ UNCHANGED <<rootFiles, phase>> /\ phase = "ids"
    BY <1>1, <1>3, <1>8 DEF ResolveIdentifiersOf, Entry
  <1>9. CASE ResolvedIdentifiers
    BY <1>3, <1>9 DEF ResolvedIdentifiers, ReturnFalse, fileState
  <1>10. CASE GenerateTypeConstraints
    <2>1. m \notin rootFiles
      BY <1>3, <1>10 DEF GenerateTypeConstraints
    <2> QED
      BY <1>1, <1>3, <1>10, <2>1 DEF GenerateTypeConstraints
  <1>11. ASSUME NEW p \in Fn, UnifyOne(p)
         PROVE  phase' = "unify" /\ UNCHANGED <<store, rootFiles>>
    BY <1>11 DEF UnifyOne, loaderVars, fileState
  <1>12. CASE UNCHANGED vars
    BY <1>3, <1>12 DEF vars, loaderVars, fileState, Failing, Loading, Parsed
  <1> QED
    BY <1>3, <1>4, <1>5, <1>6, <1>7, <1>8, <1>9, <1>10, <1>11, <1>12 DEF Next, Stopped

---------------------------------------------------------------------------
(* How often a file is scanned *)

\* A call keeps its file and its scope, and its loops are taken in order.
LEMMA FrameSteps ==
  ASSUME LoaderTypeOK, FileEntryStep
  PROVE  \A k \in DOMAIN stack' :
           \/ /\ k \in DOMAIN stack /\ stack'[k].file = stack[k].file
              /\ stack'[k].scope = stack[k].scope
              /\ \/ stack'[k].step = stack[k].step /\ stack'[k].i >= stack[k].i
                 \/ stack[k].step \in DOMAIN NextStep /\ stack'[k].step = NextStep[stack[k].step]
           \/ /\ ParseSuccess /\ stack'[k].file = arg /\ stack'[k].scope = ScopeOf(arg)
              /\ stack'[k].step = (IF IsClass(arg) THEN "supers" ELSE "pre")
  <1>1. /\ DOMAIN stack = 1..Len(stack) /\ Len(stack) \in Nat
        /\ stack # <<>> <=> Len(stack) > 0
        /\ \A k \in DOMAIN stack : stack[k] \in Frame
    BY DomainOfStack
  <1>2. stack \in Seq(Frame) /\ stack' \in Seq(Frame)
    BY FileEntryTyped DEF LoaderTypeOK
  <1>3. \A k \in DOMAIN stack : stack[k].i \in Nat
    BY <1>1 DEF Frame
  <1>4. CASE UNCHANGED stack
    BY <1>1, <1>3, <1>4
  <1>5. CASE ParseSuccess
    <2>1. PICK t : /\ t.file = arg /\ t.scope = ScopeOf(arg) /\ stack' = Append(stack, t)
                   /\ t.step = (IF IsClass(arg) THEN "supers" ELSE "pre")
      BY <1>5 DEF ParseSuccess
    <2>2. /\ DOMAIN stack' = 1..(Len(stack) + 1) /\ stack'[Len(stack) + 1] = t
          /\ \A k \in 1..Len(stack) : stack'[k] = stack[k]
      <3>1. Len(stack') = Len(stack) + 1 /\ stack'[Len(stack) + 1] = t
            /\ \A k \in 1..Len(stack) : stack'[k] = stack[k]
        BY <1>2, <2>1
      <3> QED
        BY <1>2, <3>1
    <2> QED
      BY <1>1, <1>3, <1>5, <2>1, <2>2
  <1> DEFINE Replaced(t) == /\ stack # <<>> /\ stack' = Append(Below, t)
                        /\ t.file = Top.file /\ t.scope = Top.scope
  <1>6. ASSUME NEW t, Replaced(t)
        PROVE  /\ DOMAIN stack' = DOMAIN stack /\ stack'[Len(stack)] = t
               /\ \A k \in DOMAIN stack : k # Len(stack) => stack'[k] = stack[k]
    <2>1. Len(Below) = Len(stack) - 1 /\ Below \in Seq(Frame)
          /\ \A k \in 1..Len(Below) : Below[k] = stack[k]
      BY <1>6, StackTyped DEF LoaderTypeOK
    <2>2. Len(stack') = Len(Below) + 1 /\ stack'[Len(Below) + 1] = t
          /\ \A k \in 1..Len(Below) : stack'[k] = Below[k]
      BY <1>6, <2>1
    <2> QED
      BY <1>1, <1>2, <2>1, <2>2
  <1>7. ASSUME stack # <<>>, NEW ok, Advance(ok)
        PROVE  \E t : Replaced(t) /\ t.step = Top.step /\ t.i = Top.i + 1
    BY <1>7 DEF Advance
  <1>8. ASSUME stack # <<>>, \E ok : Advance(ok), NEW k \in DOMAIN stack'
        PROVE  /\ k \in DOMAIN stack /\ stack'[k].file = stack[k].file
               /\ stack'[k].scope = stack[k].scope
               /\ stack'[k].step = stack[k].step /\ stack'[k].i >= stack[k].i
    <2>1. PICK t : Replaced(t) /\ t.step = Top.step /\ t.i = Top.i + 1
      BY <1>7, <1>8
    <2> HIDE DEF Replaced
    <2>2. /\ DOMAIN stack' = DOMAIN stack /\ stack'[Len(stack)] = t
          /\ \A j \in DOMAIN stack : j # Len(stack) => stack'[j] = stack[j]
      BY <1>6, <2>1
    <2>3. t.file = Top.file /\ t.scope = Top.scope /\ Top = stack[Len(stack)]
      BY <2>1 DEF Replaced, Top
    <2> QED
      BY <1>3, <1>8, <2>1, <2>2, <2>3
  <1>9. CASE EndOfLoop
    <2>1. CASE stack' = Below
      <3>1. stack # <<>>
        BY <1>9 DEF EndOfLoop, LoaderTypeOK
      <3>2. Len(Below) = Len(stack) - 1 /\ Below \in Seq(Frame)
            /\ \A k \in 1..Len(Below) : Below[k] = stack[k]
        BY <3>1, StackTyped DEF LoaderTypeOK
      <3>3. DOMAIN stack' \subseteq DOMAIN stack /\ \A k \in DOMAIN stack' : stack'[k] = stack[k]
        BY <1>1, <2>1, <3>2
      <3> QED
        BY <1>3, <3>3
    <2>2. CASE stack' # Below
      <3>1. stack # <<>> /\ Top.step # "imports"
            /\ \E t : Replaced(t) /\ t.step = NextStep[Top.step]
        BY <1>9, <2>2 DEF EndOfLoop, LoaderTypeOK
      <3>2. PICK t : Replaced(t) /\ t.step = NextStep[Top.step]
        BY <3>1
      <3>3. t.file = Top.file /\ t.scope = Top.scope
        BY <3>2
      <3>4. Top = stack[Len(stack)] /\ Len(stack) \in DOMAIN stack
        BY <1>1, <3>1 DEF Top
      <3>5. Top.step \in DOMAIN NextStep
        BY <1>1, <3>1, <3>4 DEF Frame, Step, NextStep
      <3> HIDE DEF Replaced
      <3>6. /\ DOMAIN stack' = DOMAIN stack /\ stack'[Len(stack)] = t
            /\ \A j \in DOMAIN stack : j # Len(stack) => stack'[j] = stack[j]
        BY <1>6, <3>2
      <3> QED
        BY <1>3, <3>2, <3>3, <3>4, <3>5, <3>6
    <2> QED
      BY <2>1, <2>2
  <1>10. UNCHANGED stack \/ ParseSuccess \/ EndOfLoop \/ (stack # <<>> /\ \E ok : Advance(ok))
    <2>1. CASE LookupHit \/ ScanFailure \/ ParseFailure \/ CallFileEntry
      BY <2>1 DEF LookupHit, ScanFailure, ParseFailure, CallFileEntry
    <2>2. CASE UndefinedAbstractMethod \/ UnresolvedFile
      BY <2>2 DEF UndefinedAbstractMethod, UnresolvedFile, Looping, LoaderTypeOK
    <2>3. CASE CalleeFailed \/ RegisterSuperclass \/ AddImport \/ NoMethodFile \/ ExtractMethod
      BY <2>3 DEF CalleeFailed, RegisterSuperclass, AddImport, NoMethodFile, ExtractMethod, Returned
    <2> QED
      BY <2>1, <2>2, <2>3 DEF FileEntryStep
  <1> QED
    BY <1>4, <1>5, <1>8, <1>9, <1>10

\* Which files a step of file_entry scans, and which entries it erases.
LEMMA ScanSteps ==
  ASSUME LoaderTypeOK, FileEntryStep
  PROVE  \/ /\ UNCHANGED scans
            /\ \A f \in File : Stored(f) => Stored(f)'
         \/ /\ ParseFailure \/ ParseSuccess
            /\ mode = "enter" /\ ~Stored(arg) /\ scans' = [scans EXCEPT ![arg] = @ + 1]
            /\ store'[arg].status # "absent" /\ \A f \in File : f # arg => store'[f] = store[f]
         \/ /\ ExtractMethod /\ UNCHANGED scans
            /\ \A f \in File : f # arg => store'[f] = store[f]
  <1>1. arg \in File /\ store \in [File -> Entry]
    BY DEF LoaderTypeOK
  <1>2. CASE ParseFailure \/ ParseSuccess
    BY <1>1, <1>2 DEF ParseFailure, ParseSuccess, Stored, Fresh, Return
  <1>3. CASE ExtractMethod
    BY <1>1, <1>3 DEF ExtractMethod
  <1>4. CASE ScanFailure
    BY <1>1, <1>4 DEF ScanFailure, Stored, Fresh
  <1>5. CASE LookupHit \/ CallFileEntry \/ UndefinedAbstractMethod \/ UnresolvedFile \/ EndOfLoop
             \/ CalleeFailed \/ RegisterSuperclass \/ AddImport \/ NoMethodFile
    BY <1>5 DEF LookupHit, CallFileEntry, UndefinedAbstractMethod, UnresolvedFile, EndOfLoop,
      CalleeFailed, RegisterSuperclass, AddImport, NoMethodFile, fileState, Stored
  <1> QED
    BY <1>2, <1>3, <1>4, <1>5 DEF FileEntryStep

\* A call that is past method i of g stays past it.
LEMMA PastKept ==
  ASSUME TypeOK, LoadInv, FileEntryStep, phase = "load", UNCHANGED world,
         \A w \in Worlds : MethodFilesApart(w),
         NEW g \in File, NEW i \in Nat, PastMethod(g, i)
  PROVE  PastMethod(g, i)'
  <1> USE DEF TypeOK, LoadInv
  <1>1. IsClass(g)' /\ IsClass(g) /\ Stored(g)
    BY DEF PastMethod, IsClass, Info
  <1>2. Stored(g)'
    <2>1. CASE ExtractMethod
      <3>1. g # arg
        BY <1>1, <2>1 DEF ExtractMethod, IsClass
      <3> QED
        BY <1>1, <2>1, <3>1 DEF ExtractMethod, Stored, LoaderTypeOK
    <2>2. CASE ~ExtractMethod
      BY <1>1, <2>2, ScanSteps DEF Stored
    <2> QED
      BY <2>1, <2>2
  <1>3. ASSUME NEW k \in DOMAIN stack', stack'[k].file = g
        PROVE  stack'[k].step # "supers" /\ (stack'[k].step = "methods" => stack'[k].i > i)
    <2>1. ~(ParseSuccess /\ g = arg)
      BY <1>1 DEF ParseSuccess
    <2>2. /\ k \in DOMAIN stack /\ stack'[k].file = stack[k].file
          /\ \/ stack'[k].step = stack[k].step /\ stack'[k].i >= stack[k].i
             \/ stack[k].step \in DOMAIN NextStep /\ stack'[k].step = NextStep[stack[k].step]
      BY <1>3, <2>1, FrameSteps
    <2>3. stack[k].step # "supers" /\ (stack[k].step = "methods" => stack[k].i > i)
      BY <1>3, <2>2 DEF PastMethod
    <2>4. CASE stack'[k].step = stack[k].step /\ stack'[k].i >= stack[k].i
      <3>1. stack[k].i \in Nat
        BY <2>2, DomainOfStack DEF Frame
      <3>2. stack'[k].i \in Nat
        <4>1. stack' \in Seq(Frame)
          BY FileEntryTyped DEF LoaderTypeOK
        <4>2. stack'[k] \in Frame
          BY <1>3, <4>1
        <4> QED
          BY <4>2 DEF Frame
      <3> QED
        BY <2>3, <2>4, <3>1, <3>2
    <2>5. CASE stack[k].step \in DOMAIN NextStep /\ stack'[k].step = NextStep[stack[k].step]
      BY <2>3, <2>5 DEF NextStep
    <2> QED
      BY <2>2, <2>4, <2>5
  <1> QED
    BY <1>1, <1>2, <1>3 DEF PastMethod

\* The call for a class is past a method when its definition has been taken.
LEMMA ExtractedPast ==
  ASSUME TypeOK, LoadInv, ScansInv, phase = "load", UNCHANGED world, ExtractMethod
  PROVE  /\ stack # <<>>
         /\ \E g \in File : \E i \in DOMAIN Info(g).methods :
              /\ g = Top.file /\ Info(g).methods[i].file = arg
              /\ PastMethod(g, i)'
  <1> USE DEF TypeOK, LoadInv
  <1>1. store \in [File -> Entry] /\ arg \in File
    BY DEF LoaderTypeOK
  <1>2. stack # <<>> /\ Top.step = "methods" /\ mode = "return"
    BY DEF ExtractMethod, Returned
  <1>3. PICK g \in File, i \in Nat, n \in DOMAIN stack :
          /\ n = Len(stack) /\ Top = stack[n] /\ g = Top.file /\ i = Top.i
          /\ i \in DOMAIN Info(g).methods /\ Info(g).methods[i].file = arg
    BY <1>2, MethodCalled
  <1>4. IsClass(g) /\ Stored(g)
    BY <1>2, <1>3 DEF ScansInv, EntriesInUse, Parsed, Stored
  <1>5. g # arg
    BY <1>4 DEF ExtractMethod, IsClass
  <1> DEFINE next(ok) == [file |-> g, scope |-> Top.scope, step |-> Top.step,
                          i |-> i + 1, ok |-> Top.ok /\ ok]
  <1>6. PICK ok : stack' = Append(Below, next(ok)) /\ Advance(ok)
    BY <1>3 DEF ExtractMethod, Advance
  <1>7. /\ DOMAIN stack' = DOMAIN stack
        /\ \A k \in DOMAIN stack : stack'[k].file = stack[k].file
    BY <1>2, <1>6, Advanced
  <1>8. stack'[n] = next(ok)
    <2>1. Len(Below) = Len(stack) - 1 /\ Below \in Seq(Frame) /\ Len(stack) \in Nat
      BY <1>2, StackTyped DEF LoaderTypeOK
    <2> QED
      BY <1>3, <1>6, <2>1
  <1>9. stack'[n].step = "methods" /\ stack'[n].i > i
    BY <1>2, <1>8
  <1>10. ASSUME NEW k \in DOMAIN stack', stack'[k].file = g PROVE k = n
    BY <1>3, <1>7, <1>10 DEF DistinctCalls
  <1>11. IsClass(g)' /\ Stored(g)'
    <2>1. store'[g] = store[g]
      BY <1>1, <1>5 DEF ExtractMethod
    <2> QED
      BY <1>4, <2>1 DEF IsClass, Info, Stored
  <1>12. PastMethod(g, i)'
    BY <1>9, <1>10, <1>11 DEF PastMethod
  <1> QED
    BY <1>2, <1>3, <1>12

LEMMA ScansLoad ==
  ASSUME TypeOK, LoadInv, ScansInv, Load, \A w \in Worlds : MethodFilesApart(w)
  PROVE  ScansInv'
  <1> USE DEF TypeOK, LoadInv
  <1>1. FileEntryStep /\ phase = "load"
    BY DEF Load
  <1>2. UNCHANGED world
    BY WorldKept DEF Next
  <1>3. /\ arg \in File /\ store \in [File -> Entry] /\ scans \in [File -> Nat]
        /\ \A f \in File : scans[f] <= 1
    BY DEF LoaderTypeOK, ScansInv, ScannedOnce
  <1>4. ASSUME ParseFailure \/ ParseSuccess PROVE scans[arg] = 0
    <2>1. mode = "enter" /\ ~Stored(arg)
      BY <1>4 DEF ParseFailure, ParseSuccess
    <2>2. ASSUME scans[arg] # 0 PROVE FALSE
      <3>1. PICK g \in File : \E i \in DOMAIN Info(g).methods :
                                Info(g).methods[i].file = arg /\ PastMethod(g, i)
        BY <1>3, <2>1, <2>2 DEF ScansInv
      <3>2. PICK i \in DOMAIN Info(g).methods : Info(g).methods[i].file = arg /\ PastMethod(g, i)
        BY <3>1
      <3>3. /\ Top = stack[Len(stack)] /\ Len(stack) \in DOMAIN stack
            /\ Top.step = "methods" /\ Top.file = g /\ Top.i = i
        BY <1>1, <2>1, <3>2, CalledAsMethod
      <3>4. Top.i \in Nat
        BY <3>3, DomainOfStack DEF Frame
      <3> QED
        BY <3>2, <3>3, <3>4 DEF PastMethod
    <2> QED
      BY <2>2
  <1>5. ScannedOnce'
    <2>1. UNCHANGED scans \/ (scans[arg] = 0 /\ scans' = [scans EXCEPT ![arg] = @ + 1])
      BY <1>1, <1>4, ScanSteps
    <2> QED
      BY <1>3, <2>1 DEF ScannedOnce
  <1>6. ASSUME NEW k \in DOMAIN stack', stack'[k].step \in {"supers", "methods"}
        PROVE  IsClass(stack[k].file)'
    <2>1. CASE ParseSuccess /\ stack'[k].file = arg
                /\ stack'[k].step = (IF IsClass(arg) THEN "supers" ELSE "pre")
      BY <1>2, <1>6, <2>1 DEF IsClass, Info
    <2>2. CASE /\ k \in DOMAIN stack /\ stack'[k].file = stack[k].file
               /\ \/ stack'[k].step = stack[k].step /\ stack'[k].i >= stack[k].i
                  \/ stack[k].step \in DOMAIN NextStep /\ stack'[k].step = NextStep[stack[k].step]
      <3>1. stack[k].step \in {"supers", "methods"}
        BY <1>6, <2>2 DEF NextStep
      <3>2. IsClass(stack[k].file)
        BY <2>2, <3>1 DEF ScansInv
      <3> QED
        BY <1>2, <2>2, <3>2 DEF IsClass, Info
    <2> QED
      BY <1>1, <2>1, <2>2, FrameSteps
  <1>7. ASSUME NEW f \in File, ~Stored(f)', scans'[f] # 0
        PROVE  \E g \in File : \E i \in DOMAIN Info(g).methods :
                 Info(g).methods[i].file = f /\ PastMethod(g, i)'
    <2>1. CASE Stored(f)
      <3>1. ExtractMethod /\ f = arg
        BY <1>1, <2>1, <1>7, ScanSteps DEF Stored
      <3> QED
        BY <1>1, <1>2, <3>1, ExtractedPast
    <2>2. CASE ~Stored(f)
      <3>1. scans[f] # 0
        BY <1>1, <1>3, <1>7, <2>2, ScanSteps DEF Stored
      <3>2. PICK g \in File : \E i \in DOMAIN Info(g).methods :
                                Info(g).methods[i].file = f /\ PastMethod(g, i)
        BY <2>2, <3>1 DEF ScansInv
      <3>3. PICK i \in DOMAIN Info(g).methods : Info(g).methods[i].file = f /\ PastMethod(g, i)
        BY <3>2
      <3>4. i \in Nat
        <4>1. Info(g).methods \in Seq(Method)
          BY DEF LoaderTypeOK, World, FileInfo, Info
        <4> QED
          BY <4>1
      <3>5. PastMethod(g, i)'
        BY <1>1, <1>2, <3>3, <3>4, PastKept
      <3> QED
        BY <3>3, <3>5
    <2> QED
      BY <2>1, <2>2
  <1>8. \A f \in File : ~Stored(f)' /\ scans'[f] # 0 =>
          (\E g \in File : \E i \in DOMAIN Info(g).methods :
             Info(g).methods[i].file = f /\ PastMethod(g, i))'
    BY <1>2, <1>7 DEF Info
  <1> QED
    BY <1>5, <1>6, <1>8 DEF ScansInv

\* Nothing but file_entry scans files, or asks for them.
LEMMA ScansStay ==
  ASSUME TypeOK, LoadInv, [Next]_vars, ~Load
  PROVE  /\ UNCHANGED <<world, scans>> /\ stack' = stack
         /\ \A f \in File : Stored(f)' = Stored(f)
  <1> USE DEF TypeOK, LoadInv
  <1>1. UNCHANGED scans
    BY DEF Next, LocateRootIdentifiers, VisitKnownFile, VisitNewFile, Finish, Loaded,
      ResolveTypeImports, ResolveIdentifiersOf, ResolvedIdentifiers, GenerateTypeConstraints,
      Resolve, UnifyOne, Unified, Stopped, vars, loaderVars, fileState
  <1>2. UNCHANGED world
    BY WorldKept
  <1>3. CASE VisitNewFile
    BY <1>1, <1>2, <1>3 DEF VisitNewFile, CallChain, Stored
  <1>4. CASE Loaded
    <2>1. \A f \in File : store'[f].status = store[f].status
      BY <1>4 DEF Loaded, LoaderTypeOK, Entry
    <2> QED
      BY <1>1, <1>2, <1>4, <2>1 DEF Loaded, Stored
  <1>5. CASE UNCHANGED vars
    BY <1>5 DEF vars, loaderVars, fileState, Stored
  <1> QED
    BY <1>1, <1>2, <1>3, <1>4, <1>5, OtherSteps DEF Stored

LEMMA ScansStep ==
  ASSUME TypeOK, LoadInv, ScansInv, [Next]_vars, \A w \in Worlds : MethodFilesApart(w)
  PROVE  ScansInv'
  <1>1. CASE Load
    BY <1>1, ScansLoad
  <1>2. CASE ~Load
    <2>1. /\ UNCHANGED <<world, scans>> /\ stack' = stack
          /\ \A f \in File : Stored(f)' = Stored(f)
      BY <1>2, ScansStay
    <2>2. \A g \in File : \A i : PastMethod(g, i) => PastMethod(g, i)'
      BY <2>1 DEF PastMethod, IsClass, Info
    <2>3. \A f \in File : Info(f)' = Info(f) /\ IsClass(f)' = IsClass(f)
      BY <2>1 DEF IsClass, Info
    <2>4. ScannedOnce'
      BY <2>1 DEF ScansInv, ScannedOnce
    <2>5. \A k \in DOMAIN stack' : stack'[k].step \in {"supers", "methods"}
                                    => IsClass(stack[k].file)'
      BY <2>1 DEF ScansInv, IsClass, Info
    <2>6. \A f \in File : ~Stored(f)' /\ scans'[f] # 0 =>
            \E g \in File : \E i \in DOMAIN Info(g).methods :
              Info(g).methods[i].file = f /\ PastMethod(g, i)'
      BY <2>1, <2>2 DEF ScansInv
    <2> QED
      BY <2>1, <2>4, <2>5, <2>6 DEF ScansInv, Info
  <1> QED
    BY <1>1, <1>2

LEMMA ScansInit == Init => ScansInv
  <1> SUFFICES ASSUME Init PROVE ScansInv
    OBVIOUS
  <1>1. stack = <<>> /\ DOMAIN stack = {} /\ \A f \in File : scans[f] = 0
    BY DEF Init, LoaderInit
  <1> QED
    BY <1>1 DEF ScansInv, ScannedOnce

\* What the rest of a visit relies on when files have been loaded, for every program whose
\* method files have no other use: every root file has an entry, though the entries of
\* methods are erased among them; the entry of a call of file_entry in progress stays; when
\* the first call succeeds, all that it loaded or looked up, in this visit or in an earlier
\* one, is sound; and no file is scanned again, though the erased ones are not known anymore.
THEOREM LoadingCorrect ==
  ASSUME \A w \in Worlds : MethodFilesApart(w)
  PROVE  Spec => []LoadingSound
  <1>1. Init => TypeOK /\ LoadInv /\ ScansInv
    BY InitTyped, LoadInvInit, ScansInit
  <1>2. TypeOK /\ LoadInv /\ ScansInv /\ [Next]_vars => TypeOK' /\ LoadInv' /\ ScansInv'
    BY NextTyped, LoadInvStep, ScansStep
  <1>3. TypeOK /\ LoadInv /\ ScansInv => LoadingSound
    BY LoadedWholeHolds DEF LoadInv, ScansInv, LoadingSound
  <1> QED
    BY <1>1, <1>2, <1>3, PTL DEF Spec
=============================================================================
