----------------------------- MODULE MCProviders -----------------------------
(***************************************************************************)
(* The programs around the probe that turn sources into files: the VM      *)
(* provider with its product cache, the build provider Environment starts, *)
(* and the resolver that looks a module up in the selected roots.  They    *)
(* run in processes of their own and share no file: a behaviour is one of  *)
(* the three, and the others stay as they are.                             *)
(***************************************************************************)
EXTENDS VmProvider, BuildProvider, SourceResolver

CONSTANTS
    p1, p2, main, import, cA, cB, tA, tB,           \* for the VM provider
    rSource, rLibrary, tOne, tTwo, tOther           \* for the resolver

VARIABLE tool   \* which program the behaviour is about

ProviderOff ==
    /\ file = None /\ stamp = None /\ past = None /\ tree = None /\ treeStamp = None
    /\ exe = None /\ exeStamp = None /\ product = None /\ blob = None /\ holder = None
    /\ kept = None /\ losses = None /\ crashes = None /\ emits = None
    /\ me = [p \in Provider |-> Idle]

InvocationOff ==
    /\ run = None /\ pc = "idle" /\ version = None /\ dir = None /\ out = None /\ bundle = None
    /\ probe = None /\ reply = None /\ exit = None /\ reason = None

ResolverOff ==
    /\ root_tree = None /\ mount = None /\ order = None /\ module = None /\ todo = None
    /\ authorities = None /\ outcome = None /\ observed = None /\ key = None /\ prior = None

Init ==
    \/ tool = "vm_provider" /\ ProviderInit /\ InvocationOff /\ ResolverOff
    \/ tool = "build_provider" /\ InvocationInit /\ ProviderOff /\ ResolverOff
    \/ tool = "resolver" /\ ResolverInit /\ ProviderOff /\ InvocationOff

Next ==
    /\ UNCHANGED tool
    /\ \/ tool = "vm_provider" /\ ProviderNext /\ UNCHANGED << invocationVars, resolverVars >>
       \/ tool = "build_provider" /\ InvocationNext /\ UNCHANGED << providerVars, resolverVars >>
       \/ tool = "resolver" /\ ResolverNext /\ UNCHANGED << providerVars, invocationVars >>

Spec ==
    /\ Init /\ [][Next]_<< tool, providerVars, invocationVars, resolverVars >>
    /\ \A p \in Provider : WF_providerVars(tool = "vm_provider" /\ ProviderStep(p))
    /\ WF_invocationVars(tool = "build_provider" /\ InvocationStep)

----------------------------------------------------------------------------
(***************************************************************************)
(* The product cache can be relied on: a product was made from the bytes   *)
(* and by the compiler its key names, its files are there, whoever died or *)
(* pruned when, and inputs taken from the memo are those on disk.          *)
(***************************************************************************)
ProductsAreSound ==
    tool = "vm_provider" =>
        /\ ProviderTypeOK
        /\ ProductIsExact
        /\ ProductsAreComplete
        /\ ReturnedIsUsable
        /\ CachedInputsAreCurrent

(***************************************************************************)
(* What an invocation leaves is its own: nothing restored passes for a new *)
(* result, exit code 0 means a complete one, and no build the compiler     *)
(* supports is refused.                                                    *)
(***************************************************************************)
ResultIsGenuine ==
    tool = "build_provider" =>
        /\ InvocationTypeOK
        /\ NothingStale
        /\ ExitZeroMeansPublished
        /\ SupportedBuildsAreTaken

(***************************************************************************)
(* A module has the one text the roots agree on, found inside them,        *)
(* reported with the answer, shown by the inventory in the key and decided *)
(* by it as long as the linked directories stay as they are.               *)
(***************************************************************************)
ResolutionIsSound ==
    tool = "resolver" =>
        /\ ResolverTypeOK
        /\ StaysInsideRoots
        /\ OneAuthority
        /\ ResolvedIsObserved
        /\ InventoryShows
        /\ InventoryDecides

(***************************************************************************)
(* Every emit and every invocation ends: the prepare lock comes free when  *)
(* its holder fails or dies, and a probe that hangs is timed out.          *)
(***************************************************************************)
ProvidersEnd == EmitEnds /\ InvocationEnds

----------------------------------------------------------------------------
(* Two VM providers emit a program of a source and one adjacent import.    *)
MCProvider == {p1, p2}
MCFile == {main, import}
MCContent == {cA, cB}
MCCheckout == {tA, tB}

----------------------------------------------------------------------------
(* Invocations with the oldest, the newest and unsupported versions.       *)
MCRequested == {0, 1, 2, 13, 14}

----------------------------------------------------------------------------
(* A versioned name with candidates in both roots, names that begin with a *)
(* dot and lead out of the roots or back into one, and a name the resolver *)
(* refuses to look for.  A directory may be a link to another one of its   *)
(* root, or to one of the other root.                                      *)
MCRoot == {rSource, rLibrary}
MCRootPath == [r \in MCRoot |-> IF r = rSource THEN << "source" >> ELSE << "library" >>]
InA == << rSource, << "a" >> >>
InD == << rSource, << "d", "v1" >> >>
InLibrary == << rLibrary, << "mncs", "a", "v1" >> >>
Away == << Elsewhere, << "a" >> >>
Under == << rSource, << "a", "v1" >> >>
MCSlot == {InA, InD, InLibrary, Away, Under}
MCDirectory == {<< rSource, << "a" >> >>}
MCOrders == {<< rLibrary, rSource >>, << rSource, rLibrary, rSource >>}
MCModule == {<< "mncs", "a", "v1" >>, << "", "a" >>, << "", "source", "a", "v1" >>, << "a", "", "v1" >>}
MCText == {tOne, tTwo, tOther}
MCCompatible == (MCModule \X {tOne, tTwo})
Holding(a, d, l, u) ==
    [s \in MCSlot |-> CASE s = InA -> a [] s = InD -> d [] s = InLibrary -> l [] s = Under -> u [] s = Away -> tTwo]
MCTrees ==
    {Holding(a, f[1], l, f[2]) :
        a \in {Nothing, InD, Away}, f \in {<< tOne, Nothing >>, << Nothing, tOne >>, << tOne, tTwo >>},
        l \in {Nothing, tTwo, tOther}}
MCMounts == [MCDirectory -> {Nothing, << rSource, << "d" >> >>, << rLibrary, << "mncs", "a" >> >>}]
=============================================================================
