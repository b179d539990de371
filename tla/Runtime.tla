------------------------------- MODULE Runtime -------------------------------
(***************************************************************************)
(* RuntimeDefinition and Runtime (runtime/runtime-definition.{hpp,cpp},    *)
(* runtime/runtime.{hpp,cpp}) and the function declarations a              *)
(* ScriptBuilder makes from them (script-builder/script-builder.cpp).      *)
(*                                                                         *)
(* A native signature is turned into type NAMES when a function is         *)
(* declared, and the names into LLVM types when a ScriptBuilder is         *)
(* constructed; types and functions may be defined in between and          *)
(* afterwards.  LLVM types are identified with the native types they are   *)
(* allocated for.  A signature is its return type and one argument type:   *)
(* further arguments go the same way as the first.                         *)
(***************************************************************************)
EXTENDS Naturals

CONSTANTS
  Natives,           \* C++ types, as std::type_index tells them apart
  VoidT, Int64T,     \* two of them, which initPlatform uses
  Names,             \* type names
  Functions,         \* function names
  PrintFn,             \* the function initPlatform defines
  NoType, NoName, NoSig,
  Raw                \* address given as void*: its native signature is unknown

ASSUME RuntimeAssumption ==
  /\ {VoidT, Int64T} \subseteq Natives
  /\ VoidT # Int64T
  /\ NoType \notin Natives
  /\ NoName \notin Names
  /\ PrintFn \in Functions

Sigs == [ret : Natives, arg : Natives \ {VoidT}]  \* of a C++ function
NameSigs == [ret : Names, arg : Names]

ASSUME SigAssumption ==
  /\ NoSig \notin Sigs \cup NameSigs \cup [ret : Natives, arg : Natives]
  /\ Raw \notin Sigs \cup {NoSig}

VARIABLES
  \* RuntimeDefinition
  typeRegister,     \* type_register_: the native type a name stands for
  nativeToName,     \* native_type_to_name_
  runtimeFunctions, \* runtime_functions_: declared signature, in type names
  \* Runtime
  addresses,        \* function_addresses_: the native function, as its signature
  platformReady,    \* LLVM's native target is initialised
  \* ScriptBuilder
  builder,          \* "none", "built", or "threw": its constructor failed
  types,            \* types_: the copy of the type register
  decls,            \* function_declaration_cache_: signatures in LLVM types
  \* ghosts
  imported,         \* functions the constructor declared
  unchecked,        \* functions declared by names, without looking them up
  rebound           \* a type name was given to a second native type

typeVars     == <<typeRegister, nativeToName>>
functionVars == <<runtimeFunctions, addresses, unchecked>>
builderVars  == <<builder, types, decls, imported>>
vars == <<typeVars, functionVars, platformReady, builderVars, rebound>>

-----------------------------------------------------------------------------
\* RuntimeDefinition::getTypeName; NoName: it throws.
getTypeName(T) == nativeToName[T]
Named(sig) == getTypeName(sig.ret) # NoName /\ getTypeName(sig.arg) # NoName

\* ScriptBuilder::getLlvmType, on a register of types; NoType: it throws.
Resolves(reg, nsig) == reg[nsig.ret] # NoType /\ reg[nsig.arg] # NoType
Resolve(reg, nsig)  == [ret |-> reg[nsig.ret], arg |-> reg[nsig.arg]]

Init ==
  /\ typeRegister = [n \in Names |-> NoType]
  /\ nativeToName = [T \in Natives |-> NoName]
  /\ runtimeFunctions = [f \in Functions |-> NoSig]
  /\ addresses = [f \in Functions |-> NoSig]
  /\ platformReady = FALSE
  /\ builder = "none"
  /\ types = [n \in Names |-> NoType]
  /\ decls = [f \in Functions |-> NoSig]
  /\ imported = {}
  /\ unchecked = {}
  /\ rebound = FALSE

\* Both overloads of RuntimeDefinition::defineType.  A name can be given to
\* another type and a type to another name; nothing that was there is removed.
\* (Mutant: the first name of a type is kept for lookups, the entry of the
\* other name is taken back.)
DefineTypeOnce(T, name) ==
  /\ typeRegister' = [n \in Names |->
       IF n = name THEN T ELSE IF typeRegister[n] = T THEN NoType ELSE typeRegister[n]]
  /\ nativeToName' = [nativeToName EXCEPT ![T] = IF @ = NoName THEN name ELSE @]
  /\ rebound' = (rebound \/ typeRegister[name] \notin {NoType, T})
  /\ UNCHANGED <<functionVars, platformReady, builderVars>>
DefineType(T, name) ==
  /\ typeRegister' = [typeRegister EXCEPT ![name] = T]
  /\ nativeToName' = [nativeToName EXCEPT ![T] = name]
  /\ rebound' = (rebound \/ typeRegister[name] \notin {NoType, T})
  /\ UNCHANGED <<functionVars, platformReady, builderVars>>

\* RuntimeDefinition::declareFunction throws "already exists" for a function
\* that has a declaration.
\* (Mutant: a second declaration replaces the first.)
DeclareAgain(f, nsig) ==
  runtimeFunctions' = [runtimeFunctions EXCEPT ![f] = nsig]
Declare(f, nsig) ==
  /\ runtimeFunctions[f] = NoSig
  /\ runtimeFunctions' = [runtimeFunctions EXCEPT ![f] = nsig]

\* declareFunction(name, ret, argument_types): the names are not looked up.
DeclareByNames(f, nsig) ==
  /\ Declare(f, nsig)
  /\ unchecked' = unchecked \cup {f}
  /\ UNCHANGED addresses

\* declareFunction<R, Args...>(name) looks up the names of the native types.
\* (Mutant: the argument is named like the return type.)
DeclareNativeConfused(f, sig) ==
  /\ Named(sig)
  /\ Declare(f, [ret |-> getTypeName(sig.ret), arg |-> getTypeName(sig.ret)])
  /\ UNCHANGED unchecked
\* (Mutant: native_type_to_name_ is read with operator[].)
DeclareNativeUnguarded(f, sig) ==
  /\ Declare(f, [ret |-> getTypeName(sig.ret), arg |-> getTypeName(sig.arg)])
  /\ UNCHANGED unchecked
DeclareNative(f, sig) ==
  /\ Named(sig)
  /\ Declare(f, [ret |-> getTypeName(sig.ret), arg |-> getTypeName(sig.arg)])
  /\ UNCHANGED unchecked

\* Runtime::defineFunction: a declaration, and then the address.
DefineRaw(f, nsig) ==
  /\ Declare(f, nsig)
  /\ unchecked' = unchecked \cup {f}
  /\ addresses' = [addresses EXCEPT ![f] = Raw]
DefineLambda(f, sig) ==
  /\ DeclareNative(f, sig)
  /\ addresses' = [addresses EXCEPT ![f] = sig]

\* The client declares or defines a runtime function.
DefineFunction(f) ==
  /\ \/ \E nsig \in NameSigs : DeclareByNames(f, nsig) \/ DefineRaw(f, nsig)
     \/ \E sig \in Sigs : DefineLambda(f, sig) \/ (DeclareNative(f, sig) /\ UNCHANGED addresses)
  /\ UNCHANGED <<typeVars, platformReady, builderVars, rebound>>

\* Runtime::initPlatform initialises LLVM and then defines print.  If that
\* throws (a second call, print declared before, void or int64_t not named),
\* LLVM stays initialised and print is left as it was.
InitPlatform ==
  LET sig == [ret |-> VoidT, arg |-> Int64T] IN
  /\ platformReady' = TRUE
  /\ IF Named(sig) /\ runtimeFunctions[PrintFn] = NoSig
     THEN DefineLambda(PrintFn, sig)
     ELSE UNCHANGED functionVars
  /\ UNCHANGED <<typeVars, builderVars, rebound>>

\* ScriptBuilder::ScriptBuilder copies the type register and declares every
\* runtime function; it throws if one of their type names is not registered.
NewScriptBuilder ==
  LET declared == {f \in Functions : runtimeFunctions[f] # NoSig}
      ok == \A f \in declared : Resolves(typeRegister, runtimeFunctions[f])
  IN
  /\ builder' = IF ok THEN "built" ELSE "threw"
  /\ types' = IF ok THEN typeRegister ELSE [n \in Names |-> NoType]
  /\ decls' = [f \in Functions |->
       IF ok /\ f \in declared THEN Resolve(typeRegister, runtimeFunctions[f]) ELSE NoSig]
  /\ imported' = IF ok THEN declared ELSE {}
  /\ UNCHANGED <<typeVars, functionVars, platformReady, rebound>>

\* ScriptBuilder::getOrDeclareFunction, also on behalf of newFunction: the
\* signature is only looked at if the function is not known yet.
GetOrDeclareFunction(f, nsig) ==
  /\ builder = "built"
  /\ decls[f] = NoSig => Resolves(types, nsig)
  /\ decls' = [decls EXCEPT ![f] = IF @ = NoSig THEN Resolve(types, nsig) ELSE @]
  /\ UNCHANGED <<typeVars, functionVars, platformReady, builder, types, imported, rebound>>

Next ==
  \/ \E T \in Natives, n \in Names : DefineType(T, n)
  \/ \E f \in Functions : DefineFunction(f)
  \/ InitPlatform
  \/ NewScriptBuilder
  \/ \E f \in Functions, nsig \in NameSigs : GetOrDeclareFunction(f, nsig)

Spec == Init /\ [][Next]_vars

-----------------------------------------------------------------------------
(* Properties. *)

\* Type correctness.
TypeOK ==
  /\ typeRegister \in [Names -> Natives \cup {NoType}]
  /\ nativeToName \in [Natives -> Names \cup {NoName}]
  /\ runtimeFunctions \in [Functions -> NameSigs \cup {NoSig}]
  /\ addresses \in [Functions -> Sigs \cup {NoSig, Raw}]
  /\ platformReady \in BOOLEAN
  /\ builder \in {"none", "built", "threw"}
  /\ types \in [Names -> Natives \cup {NoType}]
  /\ decls \in [Functions -> [ret : Natives, arg : Natives] \cup {NoSig}]
  /\ imported \subseteq Functions
  /\ unchecked \subseteq Functions
  /\ rebound \in BOOLEAN

\* A script calls a function that the runtime defined with a C++ lambda with
\* exactly the lambda's signature, although the signature went through type
\* names and two registers; unless a name was given to a second type.
AbiMatches ==
  ~rebound => \A f \in imported :
    addresses[f] \in Sigs => decls[f] = addresses[f]

\* Only functions declared by unchecked names make ScriptBuilder's constructor
\* throw: what declareFunction<R, Args...> accepted stays constructible.
NativeAlwaysResolves ==
  \A f \in Functions :
    runtimeFunctions[f] # NoSig /\ f \notin unchecked
      => Resolves(typeRegister, runtimeFunctions[f])

\* A script that was built keeps its meaning while the runtime changes: once a
\* function is declared, neither its signature in the runtime nor its address
\* is ever replaced, and the declaration a live ScriptBuilder made of it stays.
DefinitionsAreFinal ==
  [][\A f \in Functions :
       /\ runtimeFunctions[f] # NoSig =>
            runtimeFunctions'[f] = runtimeFunctions[f] /\ addresses'[f] = addresses[f]
       /\ NewScriptBuilder \/ (decls[f] # NoSig => decls'[f] = decls[f])]_vars

\* README.md:23 declares a function whose types were not defined and goes on,
\* at README.md:48, to construct a ScriptBuilder from that runtime: declaring
\* should be enough for a script to be built.
DeclaredIsBuildable == builder # "threw"
=============================================================================
