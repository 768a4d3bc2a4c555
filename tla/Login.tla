--------------------------------- MODULE Login ---------------------------------
(***************************************************************************)
(* /login and /model of the windows on one Session: recording which        *)
(* credential a provider's profile names, storing the key under it, and    *)
(* adopting the provider's first model, while the user picks models and    *)
(* another client edits the profile.  Every await on the Host is a step,   *)
(* and calls reach the Host in any order.                                  *)
(***************************************************************************)
EXTENDS Integers, FiniteSets

CONSTANTS
    Window,
    Revisions   \* bound on the changes before another client stops editing the profile

\* The provider being configured, one that works, and one no longer there.
ProviderOf == [p1 |-> "new", q1 |-> "works", x1 |-> "gone"]
Model == DOMAIN ProviderOf

VARIABLES
    named,      \* the reference that the stored profile names: "none", "derived", "own"
    revision,
    keys,       \* references with a key
    selected,   \* the Session's model at the Host
    model,      \* window -> the model it shows
    step,       \* window -> where its /login is
    profile,    \* window -> what it read of the profile
    chosen,     \* window -> its model when the key was saved
    calls,      \* selections under way: window, model, whether the user's, whether accepted
    wish,       \* the model that the user picked last, "none" before
    crossed     \* a pick and an adoption did not know of each other
login == <<named, revision, keys, selected, model, step, profile, chosen, calls, wish, crossed>>

LoginInit ==
    /\ named = "none" /\ revision = 0 /\ keys = {}
    /\ selected \in {"q1", "x1"} /\ model = [w \in Window |-> selected]
    /\ step = [w \in Window |-> "idle"]
    /\ profile = [w \in Window |-> [named |-> "none", revision |-> 0]]
    /\ chosen = [w \in Window |-> selected]
    /\ calls = {} /\ wish = "none" /\ crossed = FALSE

Go(w, next) == step' = [step EXCEPT ![w] = next]
Profile == <<named, revision, keys>>
Selection == <<selected, model, calls, wish, crossed>>

\* The reference a key is stored under: the one the profile names, else derived.
keyRef(read) == IF read.named = "none" THEN "derived" ELSE read.named

\* The provider directory, then the settings of its profile.
describeProviders(w) ==
    /\ step[w] = "idle" /\ Go(w, "described")
    /\ profile' = [profile EXCEPT ![w] = [named |-> named, revision |-> revision]]
    /\ UNCHANGED <<Profile, chosen, Selection>>

\* A profile without a reference gets the derived one, if nobody changed it since.
\* Mutant: whoever changed it since.
mutateAnyway(w) ==
    /\ step[w] = "described" /\ profile[w].named = "none"
    /\ Go(w, "named") /\ named' = "derived" /\ revision' = revision + 1
    /\ UNCHANGED <<keys, profile, chosen, Selection>>
mutate(w) ==
    /\ step[w] = "described" /\ profile[w].named = "none"
    /\ IF profile[w].revision = revision
       THEN Go(w, "named") /\ named' = "derived" /\ revision' = revision + 1
       ELSE Go(w, "idle") /\ UNCHANGED <<named, revision>>
    /\ UNCHANGED <<keys, profile, chosen, Selection>>

Named(w) ==
    /\ step[w] = "described" /\ profile[w].named # "none" /\ Go(w, "named")
    /\ UNCHANGED <<Profile, profile, chosen, Selection>>

setCredential(w) ==
    /\ step[w] = "named" /\ Go(w, "saved")
    /\ keys' = keys \cup {keyRef(profile[w])}
    /\ UNCHANGED <<named, revision, profile, chosen, Selection>>

\* Any call may fail, and the command ends; what was done stays done.
Fails(w) ==
    /\ step[w] \in {"described", "named", "saved", "adopting"} /\ Go(w, "idle")
    /\ UNCHANGED <<Profile, profile, chosen, Selection>>

\* The key is saved; the catalog is being read.
adoptProviderModel(w) ==
    /\ step[w] = "saved" /\ Go(w, "adopting")
    /\ chosen' = [chosen EXCEPT ![w] = model[w]]
    /\ UNCHANGED <<Profile, profile, Selection>>

\* Providers with models to offer.
Groups == {"works"} \cup (IF named \in keys THEN {"new"} ELSE {})

Call(w, m, users) == [window |-> w, model |-> m, users |-> users, accepted |-> FALSE]
Picks == {c \in calls : c.users}

\* Only a window whose model nobody changed, and whose provider is not there.
Adoptable(w) ==
    model[w] = chosen[w] /\ "new" \in Groups /\ ProviderOf[model[w]] \notin Groups
\* Mutant: the model picked meanwhile is not looked at.
AdoptableUnseen(w) ==
    "new" \in Groups /\ ProviderOf[chosen[w]] \notin Groups
CatalogSettles(w) ==
    /\ step[w] = "adopting" /\ Go(w, "idle")
    /\ IF Adoptable(w)
       THEN calls' = calls \cup {Call(w, "p1", FALSE)} /\ crossed' = (crossed \/ Picks # {} \/ model[w] # selected)
       ELSE UNCHANGED <<calls, crossed>>
    /\ UNCHANGED <<Profile, profile, chosen, selected, model, wish>>

\* The user picks a model, one at a time.
chooseModel(w, m) ==
    /\ Picks = {} /\ m # selected /\ wish = "none"
    /\ calls' = calls \cup {Call(w, m, TRUE)} /\ wish' = m
    /\ crossed' = (crossed \/ calls # {})
    /\ UNCHANGED <<Profile, step, profile, chosen, selected, model>>

HostSelects(c) ==
    /\ ~c.accepted
    /\ selected' = c.model
    /\ calls' = (calls \ {c}) \cup {[c EXCEPT !.accepted = TRUE]}
    /\ UNCHANGED <<Profile, step, profile, chosen, model, wish, crossed>>

\* The window adopts what the Host accepted.
commitSelection(c) ==
    /\ c.accepted /\ calls' = calls \ {c}
    /\ model' = [model EXCEPT ![c.window] = c.model]
    /\ UNCHANGED <<Profile, step, profile, chosen, selected, wish, crossed>>

\* The journal tells every window of the Session's model.
Follows(w) ==
    /\ model[w] # selected /\ model' = [model EXCEPT ![w] = selected]
    /\ UNCHANGED <<Profile, step, profile, chosen, selected, calls, wish, crossed>>

\* Another client names a reference of its own, with its key.
EditsProfile ==
    /\ revision < Revisions /\ named # "own"
    /\ named' = "own" /\ revision' = revision + 1
    /\ keys' \in {keys, keys \cup {"own"}}
    /\ UNCHANGED <<step, profile, chosen, Selection>>

LoginNext ==
    \/ \E w \in Window :
         \/ describeProviders(w) \/ mutate(w) \/ Named(w) \/ setCredential(w)
         \/ Fails(w) \/ adoptProviderModel(w) \/ CatalogSettles(w) \/ Follows(w)
         \/ \E m \in Model \ {"x1"} : chooseModel(w, m)
    \/ \E c \in calls : HostSelects(c) \/ commitSelection(c)
    \/ EditsProfile

-----------------------------------------------------------------------------
\* No login writes over the reference another client gave the profile, and no
\* key is stored for a profile that names none, which would never be read.
NamedStays ==
    [][/\ named = "own" => named' = "own"
       /\ keys' # keys => named' # "none"]_login

\* A model that the user picked is what the Session runs once the calls have
\* been answered: the model of a provider that was configured meanwhile does
\* not replace it, unless the window that adopted it had not been told yet.
PickStands == wish # "none" /\ calls = {} /\ ~crossed => selected = wish
=============================================================================
