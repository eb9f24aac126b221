----------------------------- MODULE VmProvider -----------------------------
(***************************************************************************)
(* The canonical VM artifact provider, class CompilerProvider of           *)
(* tools/vm_provider.py: several providers emit one request into a shared  *)
(* cache while its program files and the compiler checkout are edited, the *)
(* executable is rebuilt, cache files are pruned and providers die.  The   *)
(* program is compiled by a subprocess that reads the files itself, so     *)
(* what a product says it was made from and what it was made from are two  *)
(* different observations.                                                 *)
(*                                                                         *)
(* A file's stamp (mtime, ctime, size, inode) is a count of its edits.     *)
(* The probe is external: its artifact is a function of the bytes it read  *)
(* and of the compiler it is.                                              *)
(***************************************************************************)
EXTENDS Naturals, FiniteSets, Functions

CONSTANTS
    Provider,
    File, Source,     \* the program files under the selected roots; the request's one
    Content,          \* what a program file may hold
    Checkout,         \* states of the compiler checkout's recorded inputs
    None,             \* no file, no value
    Reverts,          \* an edit may bring back what a file held before
    MaxEvents,        \* bound: edits, moves, builds, losses and crashes together
    MaxEmits          \* bound: calls of emit

ASSUME VmProviderAssumption ==
    /\ Source \in File /\ Content # {} /\ Checkout # {}
    /\ None \notin Content \union Checkout \union Provider
    /\ Reverts \in BOOLEAN

VARIABLES
    file, stamp, past,       \* a program file: content, stamp, what it held before
    tree, treeStamp,         \* the compiler checkout
    exe, exeStamp,           \* the executable: the checkout it was built from
    product, blob,           \* the cache: <key>.json files; artifacts and evidence
    holder,                  \* who holds .prepare.lock
    kept,                    \* a provider's _inspection and _inputs_cache
    me,                      \* the locals of a provider's emit, and where it is
    losses, crashes, emits

program == << file, stamp, past >>
compiler == << tree, treeStamp, exe, exeStamp >>
cache == << product, blob >>
counts == << losses, crashes, emits >>
providerVars == << program, compiler, cache, holder, kept, me, counts >>

Bytes == Content \union {None}
Inspection == [producer : Checkout, exe : Checkout \union {None}, ready : BOOLEAN]
Inputs == [rows : [File -> Bytes], producer : Checkout, exe : Checkout \union {None}]
Artifact == [rows : [File -> Bytes], producer : Checkout]
Blob == {"artifact", "evidence"} \X Artifact
Product == [key : Inputs, artifact : Artifact]

Label == {"idle", "inspect", "digest", "sign", "list", "hash", "observed", "wait", "lookup",
          "compile", "artifact", "evidence", "product", "returned"}

Idle == [pc |-> "idle", info |-> None, inputs |-> None, got |-> None,
         rows |-> << >>, compiled |-> None, losses |-> 0]

At(p, label) == me[p].pc = label
Stay == UNCHANGED << program, compiler, cache, counts >>

\* The inspection and the inputs are taken twice, the second time under the lock.
Second(p) == holder = p

\* Seeded fault: the lock is not given back on an error.
FailEmitLocked(p) ==
    /\ me' = [me EXCEPT ![p] = Idle]
    /\ Stay /\ UNCHANGED << holder, kept >>

\* An exception: emit raises ProviderError and the lock's file is closed.
FailEmit(p) ==
    /\ me' = [me EXCEPT ![p] = Idle]
    /\ holder' = IF holder = p THEN None ELSE holder
    /\ Stay /\ UNCHANGED kept

BeginEmit(p) ==
    /\ At(p, "idle")
    /\ emits < MaxEmits
    /\ emits' = emits + 1
    /\ me' = [me EXCEPT ![p].pc = "inspect"]
    /\ UNCHANGED << program, compiler, cache, holder, kept, losses, crashes >>

----------------------------------------------------------------------------
(* inspect. *)

CheckoutSignature == << treeStamp, exeStamp >>

\* emit goes on with what inspect returned; the first time it must be ready.
Inspected(p, value) ==
    /\ me' = IF value.ready \/ Second(p)
             THEN [me EXCEPT ![p].pc = "list", ![p].info = value, ![p].got = None]
             ELSE [me EXCEPT ![p] = Idle]
    /\ UNCHANGED holder

\* The memoised inspection is returned while its signature holds; otherwise
\* the executable is asked for its build receipt.
Inspect(p) ==
    /\ At(p, "inspect")
    /\ LET memo == kept[p].inspection
           hit == memo # None /\ memo.signature = CheckoutSignature
       IN  \/ /\ hit
              /\ Inspected(p, memo.value)
              /\ Stay /\ UNCHANGED kept
           \/ /\ ~hit /\ exe = None
              /\ FailEmit(p)
           \/ /\ ~hit /\ exe # None
              /\ me' = [me EXCEPT ![p].pc = "digest", ![p].got = exe]
              /\ Stay /\ UNCHANGED << holder, kept >>

\* The checkout's inputs are digested and compared with the receipt.
Digest(p) ==
    /\ At(p, "digest")
    /\ LET value == [producer |-> me[p].got, exe |-> exe, ready |-> tree = me[p].got]
       IN  me' = [me EXCEPT ![p].pc = "sign", ![p].got = value]
    /\ Stay /\ UNCHANGED << holder, kept >>

\* The value is memoised under the stamps the inputs have now.
Sign(p) ==
    /\ At(p, "sign")
    /\ kept' = [kept EXCEPT ![p].inspection = [value |-> me[p].got, signature |-> CheckoutSignature]]
    /\ Inspected(p, me[p].got)
    /\ Stay

----------------------------------------------------------------------------
(* _inputs. *)

Present == {f \in File : file[f] # None}
InputsSignature(p) ==
    [producer |-> me[p].info.producer, exe |-> me[p].info.exe, stamps |-> [f \in Present |-> stamp[f]]]

\* The roots are listed and the files' stamps taken.
List(p) ==
    /\ At(p, "list")
    /\ LET memo == kept[p].inputs
           signature == InputsSignature(p)
       IN  me' = IF memo # None /\ memo.signature = signature
                 THEN [me EXCEPT ![p].pc = "observed", ![p].got = memo.value]
                 ELSE [me EXCEPT ![p].pc = "hash", ![p].got = signature, ![p].rows = << >>]
    /\ Stay /\ UNCHANGED << holder, kept >>

\* The stamps taken before the files were read.
EarlySignature(p) == me[p].got

ReadRow(p, f) == [g \in DOMAIN me[p].rows \union {f} |-> IF g = f THEN file[f] ELSE me[p].rows[g]]

\* One listed file is read, in the order of the listing; a file that is gone is an error.
Hash(p) ==
    /\ At(p, "hash")
    /\ LET listed == DOMAIN me[p].got.stamps
           left == listed \ DOMAIN me[p].rows
           f == CHOOSE g \in left : TRUE
       IN  \/ /\ Source \notin listed \/ (left # {} /\ file[f] = None)
              /\ FailEmit(p)
           \/ /\ left # {} /\ file[f] # None
              /\ me' = [me EXCEPT ![p].rows = ReadRow(p, f)]
              /\ Stay /\ UNCHANGED << holder, kept >>
           \/ /\ left = {} /\ Source \in listed
              /\ LET value == [rows |-> [g \in File |-> IF g \in listed THEN me[p].rows[g] ELSE None],
                               producer |-> me[p].got.producer, exe |-> me[p].got.exe]
                 IN  /\ kept' = [kept EXCEPT ![p].inputs = [value |-> value, signature |-> EarlySignature(p)]]
                     /\ me' = [me EXCEPT ![p].pc = "observed", ![p].got = value, ![p].rows = << >>]
              /\ Stay /\ UNCHANGED holder

\* The order of publication.
PublishOrder == << "artifact", "evidence", "product" >>

\* Seeded fault: the second observation of the inputs is not compared.
ObservedOnce(p) ==
    /\ At(p, "observed")
    /\ me' = IF Second(p) THEN [me EXCEPT ![p].pc = PublishOrder[1], ![p].got = None]
             ELSE [me EXCEPT ![p].pc = "wait", ![p].inputs = me[p].got, ![p].got = None]
    /\ Stay /\ UNCHANGED << holder, kept >>

\* The first time the inputs name the product; the second time they must be equal.
Observed(p) ==
    /\ At(p, "observed")
    /\ IF Second(p) /\ me[p].got # me[p].inputs
       THEN FailEmit(p)
       ELSE /\ me' = IF Second(p) THEN [me EXCEPT ![p].pc = PublishOrder[1], ![p].got = None]
                     ELSE [me EXCEPT ![p].pc = "wait", ![p].inputs = me[p].got, ![p].got = None]
            /\ Stay /\ UNCHANGED << holder, kept >>

----------------------------------------------------------------------------
(* emit under the prepare lock. *)

Flock(p) ==
    /\ At(p, "wait")
    /\ holder = None
    /\ holder' = p
    /\ me' = [me EXCEPT ![p].pc = "lookup", ![p].losses = losses]
    /\ Stay /\ UNCHANGED kept

\* Both files of a product found are there with the bytes it names.
Usable(x) == << "artifact", x.artifact >> \in blob /\ << "evidence", x.artifact >> \in blob

\* A usable product of these inputs is returned, or the probe is started.
Lookup(p) ==
    /\ At(p, "lookup")
    /\ LET found == {x \in product : x.key = me[p].inputs /\ Usable(x)}
       IN  \/ /\ found # {}
              /\ \E x \in found : me' = [me EXCEPT ![p] = [Idle EXCEPT !.pc = "returned", !.compiled = x.artifact,
                                                                       !.inputs = me[p].inputs, !.losses = me[p].losses]]
              /\ holder' = None
              /\ Stay /\ UNCHANGED kept
           \/ /\ found = {} /\ exe = None
              /\ FailEmit(p)
           \/ /\ found = {} /\ exe # None
              /\ me' = [me EXCEPT ![p].pc = "compile", ![p].got = exe]
              /\ Stay /\ UNCHANGED << holder, kept >>

\* The probe reads the files in some order, then the producer it names is
\* compared and the inputs are observed again.
Compile(p) ==
    /\ At(p, "compile")
    /\ \/ \E f \in File \ DOMAIN me[p].rows :
             /\ me' = [me EXCEPT ![p].rows = ReadRow(p, f)]
             /\ Stay /\ UNCHANGED << holder, kept >>
       \/ /\ DOMAIN me[p].rows = File
          /\ me[p].rows[Source] # None /\ me[p].got = me[p].info.producer
          /\ me' = [me EXCEPT ![p].pc = "inspect", ![p].got = None, ![p].rows = << >>,
                              ![p].compiled = [rows |-> me[p].rows, producer |-> me[p].got]]
          /\ Stay /\ UNCHANGED << holder, kept >>
       \/ /\ DOMAIN me[p].rows = File
          /\ me[p].rows[Source] = None \/ me[p].got # me[p].info.producer
          /\ FailEmit(p)

\* The probe refuses the program, fails or runs into the timeout.
CompileFails(p) == At(p, "compile") /\ FailEmit(p)

After(label) ==
    IF \E i \in 1 .. 2 : PublishOrder[i] = label
    THEN PublishOrder[(CHOOSE i \in 1 .. 2 : PublishOrder[i] = label) + 1] ELSE "returned"

\* One of the three files is written aside and renamed into place.
Publish(p) ==
    /\ me[p].pc \in {"artifact", "evidence", "product"}
    /\ LET x == me[p].compiled
           label == me[p].pc
       IN  /\ blob' = IF label = "product" THEN blob ELSE blob \union {<< label, x >>}
           /\ product' = IF label = "product"
                         THEN {y \in product : y.key # me[p].inputs} \union {[key |-> me[p].inputs, artifact |-> x]}
                         ELSE product
           /\ me' = [me EXCEPT ![p].pc = After(label), ![p].info = None]
           /\ holder' = IF After(label) = "returned" THEN None ELSE holder
    /\ UNCHANGED << program, compiler, kept, counts >>

Leave(p) ==
    /\ At(p, "returned")
    /\ me' = [me EXCEPT ![p] = Idle]
    /\ Stay /\ UNCHANGED << holder, kept >>

----------------------------------------------------------------------------
(* The surroundings. *)

MayHappen == FoldFunction(+, 0, stamp) + treeStamp + exeStamp + losses + crashes < MaxEvents

Edit(f) ==
    /\ MayHappen
    /\ \E c \in Bytes \ {file[f]} :
          /\ Reverts \/ c \notin past[f]
          /\ file' = [file EXCEPT ![f] = c]
    /\ past' = [past EXCEPT ![f] = @ \union {file[f]}]
    /\ stamp' = [stamp EXCEPT ![f] = @ + 1]
    /\ UNCHANGED << compiler, cache, holder, kept, me, counts >>

MoveCheckout ==
    /\ MayHappen
    /\ \E t \in Checkout \ {tree} : tree' = t
    /\ treeStamp' = treeStamp + 1
    /\ UNCHANGED << program, cache, exe, exeStamp, holder, kept, me, counts >>

\* A build puts a new executable in place, or bootstrap's clean removes it.
Rebuild ==
    /\ MayHappen
    /\ exe' \in {tree, None} \ {exe}
    /\ exeStamp' = exeStamp + 1
    /\ UNCHANGED << program, cache, tree, treeStamp, holder, kept, me, counts >>

\* Caller-owned pruning, or damage, of a file of the cache.
Lose ==
    /\ MayHappen
    /\ losses' = losses + 1
    /\ \/ \E b \in blob : blob' = blob \ {b} /\ UNCHANGED product
       \/ \E x \in product : product' = product \ {x} /\ UNCHANGED blob
    /\ UNCHANGED << program, compiler, holder, kept, me, crashes, emits >>

NothingKept == [inspection |-> None, inputs |-> None]

\* A provider's process dies and a new one takes its place.
Crash(p) ==
    /\ MayHappen
    /\ ~At(p, "idle")
    /\ crashes' = crashes + 1
    /\ me' = [me EXCEPT ![p] = Idle]
    /\ kept' = [kept EXCEPT ![p] = NothingKept]
    /\ holder' = IF holder = p THEN None ELSE holder
    /\ UNCHANGED << program, compiler, cache, losses, emits >>

AnyContent == CHOOSE c \in Content : TRUE
AnyCheckout == CHOOSE t \in Checkout : TRUE

\* Contents are interchangeable, and so are states of the checkout: it does not
\* matter which ones there are at the start.
ProviderInit ==
    /\ file \in [File -> {AnyContent, None}] /\ file[Source] # None
    /\ stamp = [f \in File |-> 0] /\ past = [f \in File |-> {}]
    /\ tree = AnyCheckout /\ exe \in {tree, None} /\ treeStamp = 0 /\ exeStamp = 0
    /\ product = {} /\ blob = {} /\ holder = None
    /\ kept = [p \in Provider |-> NothingKept]
    /\ me = [p \in Provider |-> Idle]
    /\ losses = 0 /\ crashes = 0 /\ emits = 0

ProviderStep(p) ==
    \/ Inspect(p) \/ Digest(p) \/ Sign(p) \/ List(p) \/ Hash(p) \/ Observed(p)
    \/ Flock(p) \/ Lookup(p) \/ Compile(p) \/ Publish(p) \/ Leave(p)

ProviderNext ==
    \/ \E p \in Provider : BeginEmit(p) \/ ProviderStep(p) \/ CompileFails(p) \/ Crash(p)
    \/ \E f \in File : Edit(f)
    \/ MoveCheckout \/ Rebuild \/ Lose

ProviderSpec == ProviderInit /\ [][ProviderNext]_providerVars

\* Every subprocess ends or is ended by its timeout.
ProviderFairSpec == ProviderSpec /\ \A p \in Provider : WF_providerVars(ProviderStep(p))

----------------------------------------------------------------------------
(* Properties. *)

\* The type invariant, with the lock: publication and compilation happen
\* only in the provider that holds it.
ProviderTypeOK ==
    /\ file \in [File -> Bytes] /\ stamp \in [File -> Nat] /\ past \in [File -> SUBSET Bytes]
    /\ tree \in Checkout /\ exe \in Checkout \union {None}
    /\ product \subseteq Product /\ blob \subseteq Blob
    /\ \A p \in Provider :
          /\ me[p].pc \in Label
          /\ me[p].info \in Inspection \union {None} /\ me[p].inputs \in Inputs \union {None}
          /\ me[p].compiled \in Artifact \union {None}
          /\ me[p].pc \in {"lookup", "compile", "artifact", "evidence", "product"} => holder = p

Complete(x) == \A kind \in {"artifact", "evidence"} : << kind, x >> \in blob

\* "Keys bind exact selected roots and content": the artifact a product names
\* was compiled from the very bytes, and by the very compiler, that its key
\* stands for, although all of them may change while the probe runs.
ProductIsExact ==
    \A x \in product : x.artifact = [rows |-> x.key.rows, producer |-> x.key.producer]

\* A product file never names a file that was not published before it: with
\* nothing pruned, every product in the cache can be used, whoever died when.
ProductsAreComplete == losses = 0 => \A x \in product : Complete(x.artifact)

\* Whatever was pruned or damaged before, the files of the product emit
\* returns are there, unless something was pruned while emit held the lock.
ReturnedIsUsable ==
    \A p \in Provider :
        At(p, "returned") /\ me[p].losses = losses => Complete(me[p].compiled)

\* A provider that takes its inputs from its own cache gets what reading the
\* files would give it.
CachedInputsAreCurrent ==
    \A p \in Provider :
        At(p, "list") /\ kept[p].inputs # None /\ kept[p].inputs.signature = InputsSignature(p) =>
            kept[p].inputs.value.rows = file

\* emit ends, in a product or an error: a provider that fails or dies never
\* leaves the others waiting at the prepare lock.
EmitEnds == \A p \in Provider : ~At(p, "idle") ~> At(p, "idle")
=============================================================================
