----------------------------- MODULE SettingsTab -----------------------------
(***************************************************************************)
(* cli/src/internal/ui/profile.go and profile_taxonomy.go: the tab of API   *)
(* keys, agents and taxonomies.  A taxonomy row is its identifier and the   *)
(* kind it was loaded for, "taxOf" for all the rows of the table.  The      *)
(* digits the prompt of the pending limit asks for never reach it: the      *)
(* program takes them to choose a tab.                                      *)
(***************************************************************************)
EXTENDS TuiKit

CONSTANT Kinds    \* the kinds of taxonomy, in the order of the tabs

VARIABLES profile, cmds

Cmd(kind, arg) == [tab |-> "profile", kind |-> kind, arg |-> arg]
Becomes(new, sent) ==
    /\ profile' = new
    /\ cmds' = With(cmds, sent)
    /\ Room(cmds')
Updates(c, new, sent) ==
    /\ profile' = new
    /\ cmds' = With(Without(cmds, c), sent)

\* "prompt" is the dialog that takes the keys, "text" what it holds.
New ==
    [section |-> 0, sectionFocus |-> FALSE, keys |-> {}, agents |-> {},
     agentDetail |-> None, created |-> FALSE,
     prompt |-> "", text |-> "",
     taxKind |-> 1, inactive |-> FALSE, search |-> "", taxLoading |-> FALSE,
     taxItems |-> {}, taxOf |-> 1, editing |-> None, editingOf |-> 1]

TaxPrompts == {"createName", "createDescription", "editName",
               "editDescription", "filter"}
Prompts == {"key", "apiKey", "limit"} \cup TaxPrompts

Models ==
    [section : 0..2, sectionFocus : BOOLEAN, keys : SUBSET Ids,
     agents : SUBSET Ids, agentDetail : Record, created : BOOLEAN,
     prompt : Prompts \cup {""}, text : Text, taxKind : DOMAIN Kinds,
     inactive : BOOLEAN, search : Text, taxLoading : BOOLEAN,
     taxItems : SUBSET Ids, taxOf : DOMAIN Kinds, editing : Record,
     editingOf : DOMAIN Kinds]
TypeOK == profile \in Models

LoadTaxonomy(m) == Cmd("taxonomy", m.taxKind)

\* Init: its receiver is a value, so only its loads take place.
Opening == {Cmd("keys", None), Cmd("agents", None), LoadTaxonomy(profile)}

(***************************************************************************)
(* Answers.                                                                 *)
(***************************************************************************)
ListsLoaded(c) ==
    /\ c.kind \in {"keys", "agents"}
    /\ \E items \in Lists :
           Updates(c, [profile EXCEPT ![c.kind] = items], {})

KeyCreated(c) ==
    /\ c.kind = "createKey"
    /\ Updates(c, IF profile.prompt = "key"
                  THEN [profile EXCEPT !.prompt = "", !.text = "",
                                       !.created = TRUE]
                  ELSE [profile EXCEPT !.created = TRUE], {Cmd("keys", None)})

KeyRevoked(c) == c.kind = "revoke" /\ Updates(c, profile, {Cmd("keys", None)})
AgentUpdated(c) == c.kind = "trust" /\ Updates(c, profile, {Cmd("agents", None)})

APIKeySaved(c) ==
    /\ c.kind = "saveKey"
    /\ Updates(c, IF profile.prompt = "apiKey"
                  THEN [profile EXCEPT !.prompt = "", !.text = ""]
                  ELSE profile, {})

\* Mutant: rows of any kind are shown.
TaxonomyLoadedAnyKind(c) ==
    /\ c.kind = "taxonomy"
    /\ \E items \in Lists :
           Updates(c, [profile EXCEPT !.taxItems = items, !.taxOf = c.arg,
                                      !.taxLoading = FALSE], {})

\* Rows of a kind that is not the one shown any more are dropped.
TaxonomyLoaded(c) ==
    /\ c.kind = "taxonomy"
    /\ IF c.arg # profile.taxKind THEN Updates(c, profile, {})
       ELSE \E items \in Lists :
                Updates(c, [profile EXCEPT !.taxItems = items, !.taxOf = c.arg,
                                           !.taxLoading = FALSE], {})

TaxonomyActionDone(c) ==
    /\ c.kind \in {"taxCreate", "taxUpdate", "taxArchive", "taxActivate"}
    /\ Updates(c, [profile EXCEPT !.taxLoading = TRUE],
               {LoadTaxonomy(profile)})

Answered(c) ==
    \/ ListsLoaded(c) \/ KeyCreated(c) \/ KeyRevoked(c) \/ AgentUpdated(c)
    \/ APIKeySaved(c) \/ TaxonomyLoaded(c) \/ TaxonomyActionDone(c)

(***************************************************************************)
(* Keys.                                                                    *)
(***************************************************************************)
Ask(m, prompt, text) == [m EXCEPT !.prompt = prompt, !.text = text]
Close(m) == Ask(m, "", "")

\* What esc, a key and enter do to each prompt.  An empty name or a wrong
\* limit only reports an error; the new key, the limit and the prompts of
\* keys stay open until their answer.
TaxonomyCmd(kind, id, of) ==
    Cmd(kind, [kind |-> profile.taxKind, id |-> id, of |-> of])

Submit ==
    LET closed == Close(profile)
        sent == [closed EXCEPT !.editing = None, !.taxLoading = TRUE]
    IN  CASE profile.prompt = "key" ->
               Becomes(closed, {Cmd("createKey", None)})
          [] profile.prompt = "apiKey" ->
               Becomes(profile, IF Typed(profile.text)
                                THEN {Cmd("saveKey", None)} ELSE {})
          [] profile.prompt = "limit" ->
               Becomes(profile, IF Typed(profile.text)
                                THEN {Cmd("saveLimit", None)} ELSE {})
          [] profile.prompt \in {"createName", "editName"} ->
               Becomes(IF ~Typed(profile.text) THEN closed
                       ELSE Ask(profile, IF profile.prompt = "createName"
                                         THEN "createDescription"
                                         ELSE "editDescription", ""), {})
          [] profile.prompt = "createDescription" ->
               Becomes(sent, {TaxonomyCmd("taxCreate", None, profile.taxKind)})
          [] profile.prompt = "editDescription" ->
               Becomes(sent, {TaxonomyCmd("taxUpdate", profile.editing,
                                          profile.editingOf)})
          [] profile.prompt = "filter" ->
               Becomes([closed EXCEPT !.search = profile.text,
                                      !.taxLoading = TRUE],
                       {LoadTaxonomy(profile)})

\* Erasing is all the prompt of the limit can be given.
PromptKey ==
    /\ profile.prompt # ""
    /\ \/ Becomes(IF profile.prompt \in TaxPrompts
                  THEN [Close(profile) EXCEPT !.editing = None]
                  ELSE Close(profile), {})
       \/ Submit
       \/ \E t \in Text :
              /\ profile.prompt = "limit" => t = ""
              /\ Becomes([profile EXCEPT !.text = t], {})

SectionKey ==
    \/ \E section \in 0..2 :
           Becomes([profile EXCEPT !.section = section], {})
    \/ Becomes([profile EXCEPT !.sectionFocus = FALSE], {})

AnyListKey ==
    \/ \E section \in (0..2) \ {profile.section} :
           Becomes([profile EXCEPT !.section = section,
                                   !.sectionFocus = TRUE], {})
    \/ Becomes([profile EXCEPT !.sectionFocus = TRUE], {})
    \/ \E text \in Text : Becomes(Ask(profile, "apiKey", text), {})
    \/ Becomes(Ask(profile, "limit", "text"), {})

KeysKey ==
    /\ profile.section = 0
    /\ \/ Becomes(Ask(profile, "key", ""), {})
       \/ \E id \in profile.keys : Becomes(profile, {Cmd("revoke", id)})

AgentsKey ==
    /\ profile.section = 1
    /\ \E id \in profile.agents :
           \/ Becomes([profile EXCEPT !.agentDetail = id], {})
           \/ Becomes(profile, {Cmd("trust", id)})

Loading(m) == [m EXCEPT !.taxLoading = TRUE]

\* The rows stay those of the kind shown before, and take the keys, until
\* the rows of the kind that is chosen arrive.
TaxonomyKey ==
    /\ profile.section = 2
    /\ \/ Becomes(Ask(profile, "createName", ""), {})
       \/ Becomes(Ask(profile, "filter", profile.search), {})
       \/ \E id \in profile.taxItems :
              \/ Becomes([Ask(profile, "editName", "text")
                             EXCEPT !.editing = id,
                                    !.editingOf = profile.taxOf], {})
              \/ \E kind \in {"taxArchive", "taxActivate"} :
                     Becomes(Loading(profile),
                             {TaxonomyCmd(kind, id, profile.taxOf)})
       \/ LET m == [Loading(profile) EXCEPT !.inactive = ~@] IN
          Becomes(m, {LoadTaxonomy(m)})
       \/ \E kind \in DOMAIN Kinds \ {profile.taxKind} :
              LET m == [Loading(profile) EXCEPT !.taxKind = kind] IN
              Becomes(m, {LoadTaxonomy(m)})

Key ==
    IF profile.prompt # "" THEN PromptKey
    ELSE IF profile.agentDetail # None
    THEN Becomes([profile EXCEPT !.agentDetail = None], {})
    ELSE IF profile.created THEN Becomes([profile EXCEPT !.created = FALSE], {})
    ELSE IF profile.sectionFocus THEN SectionKey
    ELSE AnyListKey \/ KeysKey \/ AgentsKey \/ TaxonomyKey
=============================================================================
