---------------------------- MODULE RuntimeProofs ----------------------------
(* Proofs about Runtime, for any types, names and functions, and about the   *)
(* modules that are composed with it, TypeTables and Vm.                     *)
EXTENDS TypeTables, Vm, TLAPS

\* The name getTypeName returns is registered; it names the type that was
\* asked for as long as no name was given to a second type.
NamesAgree ==
  \A T \in Natives : nativeToName[T] # NoName =>
    /\ typeRegister[nativeToName[T]] # NoType
    /\ ~rebound => typeRegister[nativeToName[T]] = T

\* Only declared functions have an address, and a lambda's names resolve to
\* its own signature.
AddressesAgree ==
  \A f \in Functions :
    /\ addresses[f] # NoSig => runtimeFunctions[f] # NoSig
    /\ addresses[f] \in Sigs =>
         /\ f \notin unchecked
         /\ ~rebound => Resolve(typeRegister, runtimeFunctions[f]) = addresses[f]

\* What the constructor declared is declared in the runtime and in the module.
ImportsDeclared ==
  \A f \in imported : runtimeFunctions[f] # NoSig /\ decls[f] # NoSig

\* Functions declared by names are declared.
UncheckedDeclared == \A f \in unchecked : runtimeFunctions[f] # NoSig

Inv ==
  /\ TypeOK
  /\ UncheckedDeclared
  /\ NamesAgree
  /\ NativeAlwaysResolves
  /\ AddressesAgree
  /\ ImportsDeclared
  /\ AbiMatches

\* A registered name stays registered, and keeps its type unless a name is
\* rebound.
LEMMA RegisterGrows ==
  ASSUME TypeOK, NEW T \in Natives, NEW name \in Names, DefineType(T, name)
  PROVE  /\ \A n \in Names : typeRegister[n] # NoType =>
              /\ typeRegister'[n] # NoType
              /\ ~rebound' => typeRegister'[n] = typeRegister[n]
         /\ rebound => rebound'
         /\ typeRegister'[name] = T
         /\ T # NoType
  BY RuntimeAssumption DEF DefineType, TypeOK

LEMMA DefineTypeKeepsInv ==
  ASSUME Inv, NEW T \in Natives, NEW name \in Names, DefineType(T, name)
  PROVE  Inv'
<1> USE DEF Inv
<1>1. TypeOK'
  BY DEF DefineType, TypeOK, functionVars, builderVars
<1>2. /\ UNCHANGED <<runtimeFunctions, addresses, unchecked, imported, decls>>
      /\ nativeToName' = [nativeToName EXCEPT ![T] = name]
  BY DEF DefineType, functionVars, builderVars
<1>3. NamesAgree'
  <2> SUFFICES ASSUME NEW U \in Natives, nativeToName'[U] # NoName
               PROVE  /\ typeRegister'[nativeToName'[U]] # NoType
                      /\ ~rebound' => typeRegister'[nativeToName'[U]] = U
    BY DEF NamesAgree
  <2>1. CASE U = T
    BY <2>1, <1>2, RegisterGrows DEF TypeOK
  <2>2. CASE U # T
    <3>1. nativeToName'[U] = nativeToName[U] /\ nativeToName[U] \in Names
      BY <2>2, <1>2 DEF TypeOK
    <3> QED
      BY <3>1, RegisterGrows DEF NamesAgree
  <2> QED
    BY <2>1, <2>2
<1>4. NativeAlwaysResolves'
  <2> SUFFICES ASSUME NEW f \in Functions, runtimeFunctions[f] # NoSig, f \notin unchecked
               PROVE  Resolves(typeRegister', runtimeFunctions[f])
    BY <1>2 DEF NativeAlwaysResolves, Resolves
  <2>1. runtimeFunctions[f].ret \in Names /\ runtimeFunctions[f].arg \in Names
    BY DEF TypeOK, NameSigs
  <2> QED
    BY <2>1, RegisterGrows DEF NativeAlwaysResolves, Resolves
<1>5. AddressesAgree'
  <2> SUFFICES ASSUME NEW f \in Functions
               PROVE  /\ addresses[f] # NoSig => runtimeFunctions[f] # NoSig
                      /\ addresses[f] \in Sigs =>
                           /\ f \notin unchecked
                           /\ ~rebound' => Resolve(typeRegister', runtimeFunctions[f]) = addresses[f]
    BY <1>2 DEF AddressesAgree, Resolve
  <2>1. addresses[f] # NoSig => runtimeFunctions[f] # NoSig
    BY DEF AddressesAgree
  <2>2. ASSUME addresses[f] \in Sigs PROVE f \notin unchecked
    BY <2>2 DEF AddressesAgree
  <2>3. ASSUME addresses[f] \in Sigs, ~rebound'
        PROVE  Resolve(typeRegister', runtimeFunctions[f]) = addresses[f]
    <3>1. runtimeFunctions[f] # NoSig /\ f \notin unchecked
      BY <2>1, <2>2, <2>3, SigAssumption
    <3>2. runtimeFunctions[f].ret \in Names /\ runtimeFunctions[f].arg \in Names
      BY <3>1 DEF TypeOK, NameSigs
    <3>3. Resolves(typeRegister, runtimeFunctions[f])
      BY <3>1 DEF NativeAlwaysResolves
    <3>4. ~rebound
      BY <2>3, RegisterGrows
    <3>5. /\ typeRegister'[runtimeFunctions[f].ret] = typeRegister[runtimeFunctions[f].ret]
          /\ typeRegister'[runtimeFunctions[f].arg] = typeRegister[runtimeFunctions[f].arg]
      BY <3>2, <3>3, <2>3, RegisterGrows DEF Resolves
    <3>6. Resolve(typeRegister, runtimeFunctions[f]) = addresses[f]
      BY <2>3, <3>4 DEF AddressesAgree
    <3> QED
      BY <3>5, <3>6 DEF Resolve
  <2> QED
    BY <2>1, <2>2, <2>3
<1>6. ImportsDeclared' /\ UncheckedDeclared'
  BY <1>2 DEF ImportsDeclared, UncheckedDeclared
<1>7. AbiMatches'
  <2>1. rebound => rebound'
    BY RegisterGrows
  <2> QED
    BY <2>1, <1>2 DEF AbiMatches
<1> QED
  BY <1>1, <1>3, <1>4, <1>5, <1>6, <1>7

\* A declaration touches one function that had none, so it is not imported.
LEMMA DeclareKeepsInv ==
  ASSUME Inv, NEW f \in Functions, NEW nsig \in NameSigs, NEW addr \in Sigs \cup {NoSig, Raw},
         NEW checked \in BOOLEAN,
         Declare(f, nsig),
         addresses' = [addresses EXCEPT ![f] = addr],
         unchecked' = IF checked THEN unchecked ELSE unchecked \cup {f},
         checked => f \notin unchecked /\ Resolves(typeRegister, nsig),
         addr \in Sigs => checked /\ (~rebound => Resolve(typeRegister, nsig) = addr),
         UNCHANGED <<typeVars, builderVars, rebound>>,
         platformReady' \in BOOLEAN
  PROVE  Inv'
<1> USE DEF Inv
<1>1. /\ runtimeFunctions[f] = NoSig
      /\ runtimeFunctions' = [runtimeFunctions EXCEPT ![f] = nsig]
      /\ nsig # NoSig
      /\ UNCHANGED <<typeRegister, nativeToName, rebound, decls, imported, builder, types>>
  BY SigAssumption DEF Declare, typeVars, builderVars
<1>2. /\ runtimeFunctions'[f] = nsig /\ addresses'[f] = addr
      /\ \A g \in Functions : g # f =>
           /\ runtimeFunctions'[g] = runtimeFunctions[g] /\ addresses'[g] = addresses[g]
           /\ (g \in unchecked' <=> g \in unchecked)
  BY <1>1 DEF TypeOK
<1>3. TypeOK'
  <2>1. runtimeFunctions' \in [Functions -> NameSigs \cup {NoSig}]
    BY <1>1 DEF TypeOK
  <2>2. addresses' \in [Functions -> Sigs \cup {NoSig, Raw}]
    BY DEF TypeOK
  <2>3. unchecked' \subseteq Functions
    BY DEF TypeOK
  <2> QED
    BY <1>1, <2>1, <2>2, <2>3 DEF TypeOK
<1>4. NamesAgree'
  BY <1>1 DEF NamesAgree
<1>5. NativeAlwaysResolves'
  <2> SUFFICES ASSUME NEW g \in Functions, runtimeFunctions'[g] # NoSig, g \notin unchecked'
               PROVE  Resolves(typeRegister, runtimeFunctions'[g])
    BY <1>1 DEF NativeAlwaysResolves, Resolves
  <2>1. CASE g = f
    BY <2>1, <1>2
  <2>2. CASE g # f
    BY <2>2, <1>2 DEF NativeAlwaysResolves
  <2> QED
    BY <2>1, <2>2
<1>6. AddressesAgree'
  <2> SUFFICES ASSUME NEW g \in Functions
               PROVE  /\ addresses'[g] # NoSig => runtimeFunctions'[g] # NoSig
                      /\ addresses'[g] \in Sigs =>
                           /\ g \notin unchecked'
                           /\ ~rebound => Resolve(typeRegister, runtimeFunctions'[g]) = addresses'[g]
    BY <1>1 DEF AddressesAgree, Resolve
  <2>1. CASE g = f
    BY <2>1, <1>1, <1>2
  <2>2. CASE g # f
    BY <2>2, <1>2 DEF AddressesAgree
  <2> QED
    BY <2>1, <2>2
<1>7. f \notin imported
  BY <1>1 DEF ImportsDeclared
<1>8. imported \subseteq Functions
  BY DEF TypeOK
<1>9. ImportsDeclared' /\ UncheckedDeclared'
  <2>1. ImportsDeclared'
    BY <1>1, <1>2, <1>7, <1>8 DEF ImportsDeclared
  <2>2. unchecked \subseteq Functions
    BY DEF TypeOK
  <2>3. UncheckedDeclared'
    BY <1>1, <1>2, <2>2 DEF UncheckedDeclared
  <2> QED
    BY <2>1, <2>3
<1>10. AbiMatches'
  BY <1>1, <1>2, <1>7, <1>8 DEF AbiMatches
<1> QED
  BY <1>3, <1>4, <1>5, <1>6, <1>9, <1>10

\* Naming a native signature and resolving the names gives it back.
LEMMA NamedResolves ==
  ASSUME Inv, NEW sig \in Sigs, Named(sig),
         NEW nsig, nsig = [ret |-> getTypeName(sig.ret), arg |-> getTypeName(sig.arg)]
  PROVE  /\ nsig \in NameSigs
         /\ Resolves(typeRegister, nsig)
         /\ ~rebound => Resolve(typeRegister, nsig) = sig
<1>1. sig.ret \in Natives /\ sig.arg \in Natives /\ sig = [ret |-> sig.ret, arg |-> sig.arg]
  BY DEF Sigs
<1>2. getTypeName(sig.ret) \in Names /\ getTypeName(sig.arg) \in Names
  BY <1>1 DEF Named, getTypeName, Inv, TypeOK
<1>3. nsig.ret = getTypeName(sig.ret) /\ nsig.arg = getTypeName(sig.arg) /\ nsig \in NameSigs
  BY <1>2 DEF NameSigs
<1>4. Resolves(typeRegister, nsig)
  BY <1>1, <1>3 DEF Resolves, Named, getTypeName, Inv, NamesAgree
<1>5. ~rebound => Resolve(typeRegister, nsig) = sig
  BY <1>1, <1>3 DEF Resolve, Named, getTypeName, Inv, NamesAgree
<1> QED
  BY <1>3, <1>4, <1>5

\* A declaration that looks the names up keeps the invariant, with or
\* without a lambda's address.
LEMMA DeclareNativeKeepsInv ==
  ASSUME Inv, NEW f \in Functions, NEW sig \in Sigs, DeclareNative(f, sig),
         addresses' = [addresses EXCEPT ![f] = sig] \/ UNCHANGED addresses,
         UNCHANGED <<typeVars, builderVars, rebound>>,
         platformReady' \in BOOLEAN
  PROVE  Inv'
<1> DEFINE nsig == [ret |-> getTypeName(sig.ret), arg |-> getTypeName(sig.arg)]
<1>1. Named(sig) /\ Declare(f, nsig) /\ unchecked' = unchecked
  BY DEF DeclareNative
<1>2. /\ nsig \in NameSigs
      /\ Resolves(typeRegister, nsig)
      /\ ~rebound => Resolve(typeRegister, nsig) = sig
  BY <1>1, NamedResolves
<1> HIDE DEF nsig
<1>3. runtimeFunctions[f] = NoSig
  BY <1>1 DEF Declare
<1>4. f \notin unchecked /\ addresses[f] = NoSig
  BY <1>3 DEF Inv, UncheckedDeclared, AddressesAgree
<1>5. CASE addresses' = [addresses EXCEPT ![f] = sig]
  BY <1>1, <1>2, <1>4, <1>5, DeclareKeepsInv
<1>6. CASE UNCHANGED addresses
  <2>1. addresses' = [addresses EXCEPT ![f] = NoSig]
    BY <1>4, <1>6 DEF Inv, TypeOK
  <2> QED
    BY <1>1, <1>2, <1>4, <2>1, SigAssumption, DeclareKeepsInv
<1> QED
  BY <1>5, <1>6

\* A declaration by names keeps the invariant.
LEMMA DeclareUncheckedKeepsInv ==
  ASSUME Inv, NEW f \in Functions, NEW nsig \in NameSigs, Declare(f, nsig),
         unchecked' = unchecked \cup {f},
         addresses' = [addresses EXCEPT ![f] = Raw] \/ UNCHANGED addresses,
         UNCHANGED <<typeVars, builderVars, rebound>>,
         platformReady' \in BOOLEAN
  PROVE  Inv'
<1>1. addresses[f] = NoSig
  BY DEF Inv, AddressesAgree, Declare
<1>2. CASE addresses' = [addresses EXCEPT ![f] = Raw]
  BY <1>2, SigAssumption, DeclareKeepsInv
<1>3. CASE UNCHANGED addresses
  <2>1. addresses' = [addresses EXCEPT ![f] = NoSig]
    BY <1>1, <1>3 DEF Inv, TypeOK
  <2> QED
    BY <2>1, SigAssumption, DeclareKeepsInv
<1> QED
  BY <1>2, <1>3

LEMMA DefineFunctionKeepsInv ==
  ASSUME Inv, NEW f \in Functions, DefineFunction(f)
  PROVE  Inv'
<1>1. UNCHANGED <<typeVars, builderVars, rebound>> /\ platformReady' \in BOOLEAN
  BY DEF DefineFunction, Inv, TypeOK
<1>2. ASSUME NEW nsig \in NameSigs, DeclareByNames(f, nsig) PROVE Inv'
  BY <1>1, <1>2, DeclareUncheckedKeepsInv DEF DeclareByNames
<1>3. ASSUME NEW nsig \in NameSigs, DefineRaw(f, nsig) PROVE Inv'
  BY <1>1, <1>3, DeclareUncheckedKeepsInv DEF DefineRaw
<1>4. ASSUME NEW sig \in Sigs, DefineLambda(f, sig) PROVE Inv'
  BY <1>1, <1>4, DeclareNativeKeepsInv DEF DefineLambda
<1>5. ASSUME NEW sig \in Sigs, DeclareNative(f, sig), UNCHANGED addresses PROVE Inv'
  BY <1>1, <1>5, DeclareNativeKeepsInv
<1> QED
  BY <1>2, <1>3, <1>4, <1>5 DEF DefineFunction

LEMMA InitPlatformKeepsInv == Inv /\ InitPlatform => Inv'
<1> SUFFICES ASSUME Inv, InitPlatform PROVE Inv'
  OBVIOUS
<1> DEFINE sig == [ret |-> VoidT, arg |-> Int64T]
<1>1. sig \in Sigs
  BY RuntimeAssumption DEF Sigs
<1>2. UNCHANGED <<typeVars, builderVars, rebound>> /\ platformReady' \in BOOLEAN
  BY DEF InitPlatform
<1>3. CASE DefineLambda(PrintFn, sig)
  BY <1>1, <1>2, <1>3, RuntimeAssumption, DeclareNativeKeepsInv DEF DefineLambda
<1>4. CASE UNCHANGED functionVars
  BY <1>2, <1>4 DEF typeVars, builderVars, functionVars, Inv, TypeOK, NamesAgree, Resolves, Resolve,
     NativeAlwaysResolves, AddressesAgree, ImportsDeclared, UncheckedDeclared, AbiMatches
<1> QED
  BY <1>3, <1>4 DEF InitPlatform

\* The constructor resolves the names against the register of that moment.
LEMMA NewScriptBuilderKeepsInv == Inv /\ NewScriptBuilder => Inv'
<1> SUFFICES ASSUME Inv, NewScriptBuilder PROVE Inv'
  OBVIOUS
<1> DEFINE declared == {f \in Functions : runtimeFunctions[f] # NoSig}
<1> DEFINE ok == \A f \in declared : Resolves(typeRegister, runtimeFunctions[f])
<1>1. /\ UNCHANGED <<typeRegister, nativeToName, runtimeFunctions, addresses, unchecked,
                     platformReady, rebound>>
      /\ builder' \in {"none", "built", "threw"}
      /\ types' \in [Names -> Natives \cup {NoType}]
      /\ imported' = IF ok THEN declared ELSE {}
      /\ decls' = [f \in Functions |->
           IF ok /\ f \in declared THEN Resolve(typeRegister, runtimeFunctions[f]) ELSE NoSig]
  BY DEF NewScriptBuilder, typeVars, functionVars, Inv, TypeOK
<1>2. \A f \in declared : runtimeFunctions[f].ret \in Names /\ runtimeFunctions[f].arg \in Names
  BY DEF Inv, TypeOK, NameSigs
<1>3. ok => \A f \in declared :
        Resolve(typeRegister, runtimeFunctions[f]) \in [ret : Natives, arg : Natives]
  BY <1>2 DEF Resolve, Resolves, Inv, TypeOK
<1> HIDE DEF ok
<1>4. TypeOK'
  <2>1. decls' \in [Functions -> [ret : Natives, arg : Natives] \cup {NoSig}]
    BY <1>1, <1>3
  <2> QED
    BY <1>1, <2>1 DEF Inv, TypeOK
<1>5. ImportsDeclared'
  <2> SUFFICES ASSUME NEW f \in imported'
               PROVE  runtimeFunctions[f] # NoSig /\ decls'[f] # NoSig
    BY <1>1 DEF ImportsDeclared
  <2>1. ok /\ f \in declared /\ f \in Functions
    BY <1>1
  <2> QED
    BY <1>1, <1>3, <2>1, SigAssumption
<1>6. AbiMatches'
  <2> SUFFICES ASSUME ~rebound, NEW f \in imported', addresses[f] \in Sigs
               PROVE  decls'[f] = addresses[f]
    BY <1>1 DEF AbiMatches
  <2>1. ok /\ f \in declared /\ f \in Functions
    BY <1>1
  <2> QED
    BY <1>1, <2>1 DEF Inv, AddressesAgree
<1>7. (NamesAgree /\ NativeAlwaysResolves /\ AddressesAgree /\ UncheckedDeclared)'
  BY <1>1 DEF Inv, NamesAgree, NativeAlwaysResolves, AddressesAgree, UncheckedDeclared, Resolves, Resolve
<1> QED
  BY <1>4, <1>5, <1>6, <1>7 DEF Inv

\* A request for a function never changes a declaration that is there.
LEMMA GetOrDeclareKeepsInv ==
  ASSUME Inv, NEW f \in Functions, NEW nsig \in NameSigs, GetOrDeclareFunction(f, nsig)
  PROVE  Inv'
<1> USE DEF Inv
<1>1. /\ UNCHANGED <<typeRegister, nativeToName, runtimeFunctions, addresses, unchecked,
                     platformReady, rebound, builder, types, imported>>
      /\ decls[f] = NoSig => Resolves(types, nsig)
      /\ decls' = [decls EXCEPT ![f] = IF @ = NoSig THEN Resolve(types, nsig) ELSE @]
  BY DEF GetOrDeclareFunction, typeVars, functionVars
<1>2. TypeOK'
  <2>1. nsig.ret \in Names /\ nsig.arg \in Names
    BY DEF NameSigs
  <2>2. decls[f] = NoSig => Resolve(types, nsig) \in [ret : Natives, arg : Natives]
    BY <1>1, <2>1 DEF Resolves, Resolve, TypeOK
  <2>3. decls' \in [Functions -> [ret : Natives, arg : Natives] \cup {NoSig}]
    BY <1>1, <2>2 DEF TypeOK
  <2> QED
    BY <1>1, <2>3 DEF TypeOK
<1>3. \A g \in imported : decls'[g] = decls[g]
  BY <1>1 DEF TypeOK, ImportsDeclared
<1>4. ImportsDeclared' /\ AbiMatches'
  BY <1>1, <1>3 DEF ImportsDeclared, AbiMatches
<1>5. (NamesAgree /\ NativeAlwaysResolves /\ AddressesAgree /\ UncheckedDeclared)'
  BY <1>1 DEF NamesAgree, NativeAlwaysResolves, AddressesAgree, UncheckedDeclared, Resolves, Resolve
<1> QED
  BY <1>2, <1>4, <1>5

LEMMA InvInductive == Spec => []Inv
<1>1. Init => Inv
  <2> SUFFICES ASSUME Init PROVE Inv
    OBVIOUS
  <2>1. TypeOK
    BY DEF Init, TypeOK
  <2>2. NamesAgree /\ NativeAlwaysResolves /\ UncheckedDeclared /\ ImportsDeclared /\ AbiMatches
    BY DEF Init, NamesAgree, NativeAlwaysResolves, UncheckedDeclared, ImportsDeclared, AbiMatches
  <2>3. AddressesAgree
    BY SigAssumption DEF Init, AddressesAgree
  <2> QED
    BY <2>1, <2>2, <2>3 DEF Inv
<1>2. Inv /\ [Next]_vars => Inv'
  <2> SUFFICES ASSUME Inv, [Next]_vars PROVE Inv'
    OBVIOUS
  <2>1. ASSUME NEW T \in Natives, NEW n \in Names, DefineType(T, n) PROVE Inv'
    BY <2>1, DefineTypeKeepsInv
  <2>2. ASSUME NEW f \in Functions, DefineFunction(f) PROVE Inv'
    BY <2>2, DefineFunctionKeepsInv
  <2>3. CASE InitPlatform
    BY <2>3, InitPlatformKeepsInv
  <2>4. CASE NewScriptBuilder
    BY <2>4, NewScriptBuilderKeepsInv
  <2>5. ASSUME NEW f \in Functions, NEW nsig \in NameSigs, GetOrDeclareFunction(f, nsig) PROVE Inv'
    BY <2>5, GetOrDeclareKeepsInv
  <2>6. CASE UNCHANGED vars
    BY <2>6 DEF vars, typeVars, functionVars, builderVars, Inv, TypeOK, NamesAgree, Resolves, Resolve,
       NativeAlwaysResolves, AddressesAgree, ImportsDeclared, UncheckedDeclared, AbiMatches
  <2> QED
    BY <2>1, <2>2, <2>3, <2>4, <2>5, <2>6 DEF Next
<1> QED
  BY <1>1, <1>2, PTL DEF Spec

\* The registers, declarations and addresses keep their types.
THEOREM RuntimeTypes == Spec => []TypeOK
<1>1. Inv => TypeOK
  BY DEF Inv
<1> QED
  BY <1>1, InvInductive, PTL

\* As long as no type name is given to a second type, the LLVM declaration of
\* every function a ScriptBuilder imported has the signature of the lambda that
\* will be called, in whatever order types, functions and builders were made.
THEOREM AbiAlwaysMatches == Spec => []AbiMatches
<1>1. Inv => AbiMatches
  BY DEF Inv
<1> QED
  BY <1>1, InvInductive, PTL

\* A declaration made from native types never makes the constructor throw,
\* even when type names are rebound after it.
THEOREM NativeDeclarationsResolve == Spec => []NativeAlwaysResolves
<1>1. Inv => NativeAlwaysResolves
  BY DEF Inv
<1> QED
  BY <1>1, InvInductive, PTL

\* What Declare did not touch is as it was.
LEMMA DeclareTouchesOne ==
  ASSUME TypeOK, NEW f \in Functions, NEW nsig, Declare(f, nsig),
         NEW addr, addresses' = [addresses EXCEPT ![f] = addr] \/ UNCHANGED addresses
  PROVE  \A g \in Functions : runtimeFunctions[g] # NoSig =>
           runtimeFunctions'[g] = runtimeFunctions[g] /\ addresses'[g] = addresses[g]
  BY DEF Declare, TypeOK

\* No step changes the signature or the address of a declared function.
LEMMA DeclaredStays ==
  ASSUME TypeOK, [Next]_vars, NEW g \in Functions, runtimeFunctions[g] # NoSig
  PROVE  runtimeFunctions'[g] = runtimeFunctions[g] /\ addresses'[g] = addresses[g]
<1>1. ASSUME NEW f \in Functions, DefineFunction(f)
      PROVE  runtimeFunctions'[g] = runtimeFunctions[g] /\ addresses'[g] = addresses[g]
  <2>1. ASSUME NEW nsig \in NameSigs, DeclareByNames(f, nsig) \/ DefineRaw(f, nsig)
        PROVE  runtimeFunctions'[g] = runtimeFunctions[g] /\ addresses'[g] = addresses[g]
    BY <2>1, DeclareTouchesOne DEF DeclareByNames, DefineRaw
  <2>2. ASSUME NEW sig \in Sigs, DefineLambda(f, sig) \/ (DeclareNative(f, sig) /\ UNCHANGED addresses)
        PROVE  runtimeFunctions'[g] = runtimeFunctions[g] /\ addresses'[g] = addresses[g]
    BY <2>2, DeclareTouchesOne DEF DefineLambda, DeclareNative
  <2> QED
    BY <1>1, <2>1, <2>2 DEF DefineFunction
<1>2. CASE InitPlatform
  <2>1. ASSUME NEW sig, DefineLambda(PrintFn, sig)
        PROVE  runtimeFunctions'[g] = runtimeFunctions[g] /\ addresses'[g] = addresses[g]
    BY <2>1, RuntimeAssumption, DeclareTouchesOne DEF DefineLambda, DeclareNative
  <2> QED
    BY <1>2, <2>1 DEF InitPlatform, functionVars
<1>3. CASE UNCHANGED functionVars
  BY <1>3 DEF functionVars
<1>4. ASSUME NEW T \in Natives, NEW n \in Names, DefineType(T, n) PROVE UNCHANGED functionVars
  BY <1>4 DEF DefineType
<1>5. ASSUME NEW f \in Functions, NEW nsig \in NameSigs, GetOrDeclareFunction(f, nsig)
      PROVE  UNCHANGED functionVars
  BY <1>5 DEF GetOrDeclareFunction
<1>6. NewScriptBuilder \/ UNCHANGED vars => UNCHANGED functionVars
  BY DEF NewScriptBuilder, vars, functionVars
<1> QED
  BY <1>1, <1>2, <1>3, <1>4, <1>5, <1>6 DEF Next

\* Only a new ScriptBuilder replaces a declaration.
LEMMA DeclarationStays ==
  ASSUME TypeOK, [Next]_vars, ~NewScriptBuilder, NEW g \in Functions, decls[g] # NoSig
  PROVE  decls'[g] = decls[g]
<1>1. ASSUME NEW f \in Functions, NEW nsig \in NameSigs, GetOrDeclareFunction(f, nsig)
      PROVE  decls'[g] = decls[g]
  BY <1>1 DEF GetOrDeclareFunction, TypeOK
<1>2. ASSUME NEW T \in Natives, NEW n \in Names, DefineType(T, n) PROVE UNCHANGED decls
  BY <1>2 DEF DefineType, builderVars
<1>3. (\E f \in Functions : DefineFunction(f)) \/ InitPlatform \/ UNCHANGED vars => UNCHANGED decls
  BY DEF DefineFunction, InitPlatform, vars, builderVars
<1> QED
  BY <1>1, <1>2, <1>3 DEF Next

\* Declarations and addresses are final, in the runtime and, as long as it
\* lives, in the ScriptBuilder that imported them.
THEOREM DefinitionsStayFinal == Spec => DefinitionsAreFinal
<1>1. TypeOK /\ [Next]_vars =>
        [\A f \in Functions :
           /\ runtimeFunctions[f] # NoSig =>
                runtimeFunctions'[f] = runtimeFunctions[f] /\ addresses'[f] = addresses[f]
           /\ NewScriptBuilder \/ (decls[f] # NoSig => decls'[f] = decls[f])]_vars
  BY DeclaredStays, DeclarationStays
<1> QED
  BY <1>1, RuntimeTypes, PTL DEF Spec, DefinitionsAreFinal

-----------------------------------------------------------------------------
(* TypeTables, from the invariant of Runtime. *)

\* Seen from Runtime, every step is a step or a stutter.
THEOREM TablesAreRuntime == TablesSpec => Spec
<1>1. TablesInit => Init
  BY DEF TablesInit
<1>2. [TablesNext]_tableVars => [Next]_vars
  BY TablesAssumption DEF TablesNext, Next, tableVars, NameSigs
<1> QED
  BY <1>1, <1>2, PTL DEF TablesSpec, Spec

\* from_native_types_ has an entry for exactly the types that have a name, and
\* the entry is one of the names.
TablesAgree ==
  \A T \in Natives :
    IF NamesFor(T) = {} THEN fromNative[T] = NoName ELSE fromNative[T] \in NamesFor(T)

\* What the constructor declared resolves in its own copy of the types.
ImportsResolved == \A f \in imported : decls[f] = Resolve(types, runtimeFunctions[f])

TablesInv == TablesAgree /\ ImportsResolved

\* The constructor starts over with the types the runtime has by now.
LEMMA ConstructorResolves == TypeOK /\ NewScriptBuilder => ImportsResolved'
<1> SUFFICES ASSUME TypeOK, NewScriptBuilder, NEW f \in imported'
             PROVE  decls'[f] = Resolve(types', runtimeFunctions'[f])
  BY DEF ImportsResolved
<1>1. /\ f \in Functions
      /\ types' = typeRegister
      /\ decls'[f] = Resolve(typeRegister, runtimeFunctions[f])
      /\ runtimeFunctions' = runtimeFunctions
  BY DEF NewScriptBuilder, functionVars
<1> QED
  BY <1>1 DEF Resolve

\* Later changes of the runtime do not reach the copy, and what was declared
\* stays declared.
LEMMA OthersKeepTablesInv ==
  ASSUME Inv, TablesInv, [Next]_vars, UNCHANGED <<types, imported, fromNative>>
  PROVE  TablesInv'
<1>1. TablesAgree'
  BY DEF TablesInv, TablesAgree, NamesFor
<1>2. CASE NewScriptBuilder
  BY <1>1, <1>2, ConstructorResolves DEF Inv, TablesInv
<1>3. CASE ~NewScriptBuilder
  <2> SUFFICES ASSUME NEW f \in imported
               PROVE  decls'[f] = Resolve(types, runtimeFunctions'[f])
    BY <1>1 DEF TablesInv, ImportsResolved, Resolve
  <2>1. f \in Functions /\ runtimeFunctions[f] # NoSig /\ decls[f] # NoSig
    BY DEF Inv, TypeOK, ImportsDeclared
  <2>2. runtimeFunctions'[f] = runtimeFunctions[f] /\ decls'[f] = decls[f]
    BY <1>3, <2>1, DeclaredStays, DeclarationStays DEF Inv
  <2> QED
    BY <2>2 DEF TablesInv, ImportsResolved
<1> QED
  BY <1>2, <1>3

LEMMA TablesInvInductive == TablesSpec => [](Inv /\ TablesInv)
<1>1. TablesInit => TablesInv
  BY RuntimeAssumption DEF TablesInit, Init, TablesInv, TablesAgree, ImportsResolved, NamesFor
<1>2. Inv /\ TablesInv /\ [Next]_vars /\ [TablesNext]_tableVars => TablesInv'
  <2> SUFFICES ASSUME Inv, TablesInv, [Next]_vars, [TablesNext]_tableVars
               PROVE  TablesInv'
    OBVIOUS
  <2>1. CASE NewScriptBuilder /\ KeepLast
    <3>1. TablesAgree'
      BY <2>1 DEF KeepLast, TablesAgree, NamesFor
    <3> QED
      BY <2>1, <3>1, ConstructorResolves DEF Inv, TablesInv
  <2>2. CASE ~(NewScriptBuilder /\ KeepLast)
    <3>1. UNCHANGED <<types, imported, fromNative>>
      BY <2>2 DEF TablesNext, tableVars, DefineType, DefineFunction, InitPlatform, GetOrDeclareFunction,
         vars, builderVars
    <3> QED
      BY <3>1, OthersKeepTablesInv
  <2> QED
    BY <2>1, <2>2
<1> QED
  BY <1>1, <1>2, TablesAreRuntime, InvInductive, PTL DEF TablesSpec, Spec

\* A value of the type found by its native type is accepted where the type was
\* found by name.
THEOREM NativeArgumentsAlwaysFit == TablesSpec => []NativeArgumentsFit
<1>1. Inv /\ TablesInv => NativeArgumentsFit
  <2> SUFFICES ASSUME Inv, TablesInv, ~rebound, NEW f \in imported, addresses[f] \in Sigs
               PROVE  LET T == addresses[f].arg IN
                      /\ fromNative[T] # NoName
                      /\ T \in Specialised \/ (\A n, m \in NamesFor(T) : n = m)
                           => ByNative(T) = ByName(runtimeFunctions[f].arg)
    BY DEF NativeArgumentsFit
  <2> DEFINE T    == addresses[f].arg
             name == runtimeFunctions[f].arg
  <2>1. T \in Natives
    BY DEF Sigs
  <2>2. f \in Functions /\ runtimeFunctions[f] \in NameSigs
    BY DEF Inv, TypeOK, ImportsDeclared
  <2>3. Resolve(types, runtimeFunctions[f]) = addresses[f]
    BY DEF Inv, AbiMatches, TablesInv, ImportsResolved
  <2>4. name \in NamesFor(T)
    BY <2>2, <2>3 DEF Resolve, NamesFor, NameSigs
  <2>5. fromNative[T] \in NamesFor(T)
    BY <2>1, <2>4 DEF TablesInv, TablesAgree
  <2>6. fromNative[T] # NoName /\ types[name] = T
    BY <2>4, <2>5, RuntimeAssumption DEF NamesFor
  <2>7. CASE T \in Specialised
    BY <2>6, <2>7 DEF ByNative, ByName, LLVMTypeAllocator
  <2>8. CASE \A n, m \in NamesFor(T) : n = m
    <3>1. fromNative[T] = name
      BY <2>4, <2>5, <2>8
    <3> QED
      BY <2>6, <3>1 DEF ByNative, ByName
  <2> QED
    BY <2>6, <2>7, <2>8
<1> QED
  BY <1>1, TablesInvInductive, PTL

-----------------------------------------------------------------------------
(* Vm, from the invariant of Runtime. *)

\* Seen from Runtime, every step of the composition is a step or a stutter.
LEMMA VmStepIsRuntimeStep == [VmNext]_vmVars => [Next]_vars
  BY VmAssumption DEF VmNext, Build, MakeScript, Execute, Next, vmVars

THEOREM VmIsRuntime == VmSpec => Spec
<1>1. VmInit => Init
  BY DEF VmInit
<1> QED
  BY <1>1, VmStepIsRuntimeStep, PTL DEF VmSpec, Spec

\* What a script knew from the runtime is declared there, with an address, and
\* its text has the signature of the function.
Known ==
  script # NoScript => \A f \in script.natives :
    /\ f \in Functions
    /\ runtimeFunctions[f] # NoSig
    /\ addresses[f] # NoSig
    /\ ~script.rebound /\ addresses[f] \in Sigs => script.decls[f] = addresses[f]

\* What ran could be run: its module was linked.
RanLinked ==
  \A f \in ran :
    /\ script # NoScript
    /\ f \in Functions
    /\ platformReady
    /\ f \in script.defines => Links
    /\ f \in script.defines \/ f \in ProcessSymbols

VmInv == Inv /\ VmTypeOK /\ Known /\ RanLinked

\* Addresses are never taken back, and the target stays initialised.
LEMMA AddressesGrow ==
  ASSUME Inv, [Next]_vars
  PROVE  Absolute \subseteq Absolute' /\ (platformReady => platformReady')
<1>1. Absolute \subseteq Absolute'
  <2> SUFFICES ASSUME NEW f \in Functions, addresses[f] # NoSig PROVE addresses'[f] # NoSig
    BY DEF Absolute
  <2> QED
    BY DeclaredStays DEF Inv, AddressesAgree
<1>2. platformReady => platformReady'
  BY DEF Next, DefineType, DefineFunction, InitPlatform, NewScriptBuilder, GetOrDeclareFunction, vars
<1> QED
  BY <1>1, <1>2

\* A change of the runtime or of the builder does not touch the script.
LEMMA BuildKeepsVmInv ==
  ASSUME VmInv, Inv', [Next]_vars, UNCHANGED <<script, process, ran>>
  PROVE  VmInv'
<1>1. VmTypeOK'
  BY DEF VmInv, VmTypeOK, Scripts
<1>2. Known'
  <2> SUFFICES ASSUME script # NoScript, NEW f \in script.natives
               PROVE  /\ f \in Functions
                      /\ runtimeFunctions'[f] # NoSig
                      /\ addresses'[f] # NoSig
                      /\ ~script.rebound /\ addresses'[f] \in Sigs => script.decls[f] = addresses'[f]
    BY DEF Known
  <2> QED
    BY DeclaredStays DEF VmInv, Known, Inv
<1>3. RanLinked'
  BY AddressesGrow DEF VmInv, RanLinked, Links
<1> QED
  BY <1>1, <1>2, <1>3 DEF VmInv

\* A script takes the signatures of imported functions from AbiMatches.
LEMMA MakeScriptKeepsVmInv == VmInv /\ MakeScript => VmInv'
<1> SUFFICES ASSUME VmInv, MakeScript PROVE VmInv'
  OBVIOUS
<1> PICK defines \in SUBSET Callable, calls \in SUBSET Callable :
      script' = [defines  |-> defines,
                 decls    |-> [f \in calls |-> decls[f]],
                 natives  |-> calls \cap imported \cap Absolute,
                 rebound  |-> rebound]
  BY DEF MakeScript
<1>1. UNCHANGED vars /\ UNCHANGED process /\ ran' = {}
  BY DEF MakeScript
<1>2. Inv'
  BY <1>1 DEF VmInv, vars, typeVars, functionVars, builderVars, Inv, TypeOK, NamesAgree, Resolves, Resolve,
     NativeAlwaysResolves, AddressesAgree, ImportsDeclared, UncheckedDeclared, AbiMatches
<1>3. script' \in Scripts
  <2>1. defines \in SUBSET Functions /\ calls \in SUBSET Functions /\ rebound \in BOOLEAN
    BY DEF Callable, VmInv, Inv, TypeOK
  <2>2. calls \cap imported \cap Absolute \in SUBSET Functions
    BY <2>1
  <2>3. [f \in calls |-> decls[f]] \in [calls -> [ret : Natives, arg : Natives]]
    BY DEF Callable, VmInv, Inv, TypeOK
  <2> QED
    BY <2>1, <2>2, <2>3 DEF Scripts
<1>4. VmTypeOK'
  BY <1>1, <1>3 DEF VmInv, VmTypeOK
<1>5. Known'
  <2> SUFFICES ASSUME NEW f \in script'.natives
               PROVE  /\ f \in Functions
                      /\ runtimeFunctions[f] # NoSig
                      /\ addresses[f] # NoSig
                      /\ ~script'.rebound /\ addresses[f] \in Sigs => script'.decls[f] = addresses[f]
    BY <1>1 DEF Known, vars, functionVars
  <2>1. f \in calls /\ f \in imported /\ f \in Functions /\ addresses[f] # NoSig
    BY DEF Absolute
  <2>2. script'.decls[f] = decls[f] /\ script'.rebound = rebound
    BY <2>1
  <2> QED
    BY <2>1, <2>2 DEF VmInv, Inv, AddressesAgree, AbiMatches
<1>6. RanLinked'
  BY <1>1 DEF RanLinked
<1> QED
  BY <1>2, <1>4, <1>5, <1>6 DEF VmInv

\* A call leaves the script as it was, or ends the process.
LEMMA ExecuteKeepsVmInv ==
  ASSUME VmInv, NEW f \in Functions, Execute(f)
  PROVE  VmInv'
<1>1. UNCHANGED vars
  BY DEF Execute
<1>2. UNCHANGED <<runtimeFunctions, addresses, platformReady>> /\ Absolute' = Absolute
  BY <1>1 DEF vars, functionVars, Absolute
<1>3. Inv'
  BY <1>1 DEF VmInv, vars, typeVars, functionVars, builderVars, Inv, TypeOK, NamesAgree, Resolves, Resolve,
     NativeAlwaysResolves, AddressesAgree, ImportsDeclared, UncheckedDeclared, AbiMatches
<1>4. VmTypeOK'
  BY DEF Execute, VmInv, VmTypeOK, Scripts
<1>5. Known'
  BY <1>2 DEF Execute, VmInv, Known
<1>6. RanLinked'
  BY <1>2 DEF Execute, VmInv, RanLinked, Links, Runs, Found
<1> QED
  BY <1>3, <1>4, <1>5, <1>6 DEF VmInv

LEMMA VmInvInductive == VmSpec => []VmInv
<1>1. VmInit /\ Inv => VmInv
  BY DEF VmInit, VmInv, VmTypeOK, Known, RanLinked
<1>2. VmInv /\ Inv' /\ [VmNext]_vmVars => VmInv'
  <2> SUFFICES ASSUME VmInv, Inv', [VmNext]_vmVars PROVE VmInv'
    OBVIOUS
  <2>1. CASE Build \/ UNCHANGED vmVars
    BY <2>1, VmStepIsRuntimeStep, BuildKeepsVmInv DEF Build, vmVars
  <2>2. CASE MakeScript
    BY <2>2, MakeScriptKeepsVmInv
  <2>3. ASSUME NEW f \in Functions, Execute(f) PROVE VmInv'
    BY <2>3, ExecuteKeepsVmInv
  <2> QED
    BY <2>1, <2>2, <2>3 DEF VmNext
<1> QED
  BY <1>1, <1>2, VmIsRuntime, InvInductive, PTL DEF VmSpec

\* A script's calls keep fitting the functions they are linked to, however the
\* runtime changes after the script was made.
THEOREM LinkedCallsAlwaysFit == VmSpec => []LinkedCallsFit
<1>1. VmInv => LinkedCallsFit
  BY DEF VmInv, Known, LinkedCallsFit
<1> QED
  BY <1>1, VmInvInductive, PTL

\* What ran can be run again: calls leave nothing behind that stands in the way.
THEOREM RunnableAlwaysStaysRunnable == VmSpec => []RunnableStaysRunnable
<1>1. VmInv => RunnableStaysRunnable
  BY DEF VmInv, RanLinked, RunnableStaysRunnable, Runs, Found, AddsModule
<1> QED
  BY <1>1, VmInvInductive, PTL

\* The README's promise about functions of the runtime.
THEOREM DefinedIsAlwaysAvailable == VmSpec => []DefinedIsAvailable
<1>1. VmInv => DefinedIsAvailable
  <2>1. VmInv /\ script # NoScript => script.natives \subseteq Absolute
    BY DEF VmInv, Known, Absolute
  <2> QED
    BY <2>1 DEF DefinedIsAvailable, Runs, Found, AddsModule, Links
<1> QED
  BY <1>1, VmInvInductive, PTL

\* The composition keeps its types.
THEOREM VmTypes == VmSpec => []VmTypeOK
<1>1. VmInv => VmTypeOK
  BY DEF VmInv
<1> QED
  BY <1>1, VmInvInductive, PTL
=============================================================================
