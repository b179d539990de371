------------------------------ MODULE TypeTables ------------------------------
(***************************************************************************)
(* The two tables of types a ScriptBuilder has (script-builder.cpp): by    *)
(* name, types_, which Runtime models, and by native type,                 *)
(* from_native_types_, which the constructor fills while it iterates over  *)
(* a hash map.  Constants (toInt8, ...) and array initialisers take their  *)
(* type from the second, function declarations and variables from the      *)
(* first, and checks such as operator+'s compare native types only.        *)
(***************************************************************************)
EXTENDS Runtime

CONSTANTS
  Specialised,  \* native types with an LLVMTypeAllocator of their own
  NamedTypes,   \* bounds: the <<native type, name>> pairs and
  NamedSigs     \* the signatures in names that clients use

ASSUME TablesAssumption ==
  /\ Specialised \subseteq Natives
  /\ NamedTypes \subseteq Natives \X Names
  /\ NamedSigs \subseteq NameSigs

VARIABLE
  fromNative    \* from_native_types_: the name in the declaration of a type

tableVars == <<vars, fromNative>>

-----------------------------------------------------------------------------
\* LLVMTypeAllocator<T>::type: types without a specialisation, the unsigned
\* ones included, become a new opaque structure for every name.
\* (Mutant: the specialisations are forgotten.)
LLVMTypeAllocatorGeneric(T, name) == <<T, name>>
LLVMTypeAllocator(T, name) ==
  IF T \in Specialised THEN <<T>> ELSE <<T, name>>

\* The LLVM type of the declaration that getType finds by name, and by type.
ByName(name) == LLVMTypeAllocator(types[name], name)
ByNative(T)  == LLVMTypeAllocator(T, fromNative[T])

NamesFor(T) == {name \in Names : types[name] = T}

-----------------------------------------------------------------------------
TablesInit ==
  /\ Init
  /\ fromNative = [T \in Natives |-> NoName]

\* The constructor's loop over types_, in hash order: the declaration visited
\* last is the one that stays.
KeepLast ==
  fromNative' \in {kept \in [Natives -> Names \cup {NoName}] :
    \A T \in Natives :
      IF NamesFor(T)' = {} THEN kept[T] = NoName ELSE kept[T] \in NamesFor(T)'}

TablesNext ==
  \/ NewScriptBuilder /\ KeepLast
  \/ /\ \/ \E T \in Natives, n \in Names : <<T, n>> \in NamedTypes /\ DefineType(T, n)
        \/ \E f \in Functions :
             DefineFunction(f) /\ (f \in unchecked' => runtimeFunctions'[f] \in NamedSigs)
        \/ InitPlatform
        \/ \E f \in Functions, nsig \in NamedSigs : GetOrDeclareFunction(f, nsig)
     /\ UNCHANGED fromNative

TablesSpec == TablesInit /\ [][TablesNext]_tableVars

-----------------------------------------------------------------------------
(* Properties. *)

\* A native type that a function of the runtime takes can be looked up by its
\* native type, and a value of the declaration found is accepted as the
\* argument: its LLVM type is the one the function was declared with, although
\* the one comes from the name the function was declared with and the other
\* from whichever declaration the hash order kept.  Not so if a name was given
\* to a second type, or the type is a structure with several names.
NativeArgumentsFit ==
  ~rebound => \A f \in imported : addresses[f] \in Sigs =>
    LET T == addresses[f].arg IN
    /\ fromNative[T] # NoName
    /\ T \in Specialised \/ (\A n, m \in NamesFor(T) : n = m)
         => ByNative(T) = ByName(runtimeFunctions[f].arg)
=============================================================================
