---------------------------- MODULE SettingsPage ----------------------------
(***************************************************************************)
(* The settings page: the form (zicade-ui/src/form_model.rs), its widgets  *)
(* and what it shows of them (views/config), and the save that validates   *)
(* (zicade-config/src/validate.rs) and applies the form in the background  *)
(* (Control::apply) while the user goes on editing, or closes the window   *)
(* and opens it again.                                                     *)
(*                                                                         *)
(* A text is one of a few strings: a number is its numeral, "x" stands for *)
(* what is not a number, and a leading blank for blanks around a text.     *)
(* Fields that are only carried through (hosts, PAC source, path and       *)
(* address, fail policy, log format) behave as the ones kept here.         *)
(* RoutingControl has what an apply does to the file and the routing.      *)
(***************************************************************************)
EXTENDS Naturals

CONSTANTS
    None,        \* a config section that is absent
    Bad,         \* a FormError
    MaxWindows,  \* bound: how often the window is opened
    MaxEdits     \* bound: edits over the whole run

VARIABLES
    config,    \* Control::config
    window,    \* the window that is open, 0 for none
    opens,     \* windows opened so far
    form,      \* what the widgets hold
    saved,     \* ConfigView::saved
    saving,    \* ConfigView::saving
    outcome,   \* ConfigView::outcome
    job,       \* each window's save in the background
    edits,     \* edits so far
    edited,    \* history: the fields edited since the form was loaded
    overtaken  \* history: the form was loaded while another save was running

viewVars == <<window, opens, form, saved, saving, outcome, edits, edited, overtaken>>
vars == <<config, viewVars, job>>

Windows == 1..MaxWindows

-----------------------------------------------------------------------------
(***************************************************************************)
(* Texts and configs.                                                      *)
(***************************************************************************)
Trim(text) == CASE text = " u" -> "u" [] text = " " -> "" [] OTHER -> text

Mode == {"direct", "upstream", "pac"}
Slot == {"upstream", "pac"}     \* the auth slots

Numeral == {"0", "7", "8", "9", "30"}
Text == Numeral \cup {"", " ", "x", "u", " u", "v", "p", "q", "s", "custom", "info", "hand"}

\* A config's sections; an absent user name or password is the empty text.
Auth == [basic : BOOLEAN, user : Text, password : Text]
Upstream == [port : Numeral, auth : Auth]
Pac == [auth : Auth]
Corp == [on : BOOLEAN, suffixes : {"", "s"}, poll : Numeral]
Config ==
    [listen : Numeral, mode : Mode, upstream : Upstream \cup {None},
     pac : Pac \cup {None}, corp : Corp \cup {None}, pool : Text, level : Text]

\* An absent section and an error are neither texts nor sections nor configs.
ASSUME SettingsAssumption ==
    /\ MaxWindows \in Nat /\ MaxEdits \in Nat /\ None # Bad
    /\ \A x \in {None, Bad} :
          x \notin Text \cup {"saved", "failed"} /\ x \notin Upstream \cup Pac
          /\ x \notin Corp /\ x \notin Config

NoAuth == [basic |-> FALSE, user |-> "", password |-> ""]

\* check_auth (on Windows, where Negotiate is supported).
AuthOk(auth) == auth.basic => Trim(auth.user) # ""

\* Config::validate.
Valid(cfg) ==
    /\ cfg.listen # "0"
    /\ cfg.mode = "upstream" => cfg.upstream # None
    /\ cfg.mode = "pac" => cfg.pac # None
    /\ cfg.upstream # None => cfg.upstream.port # "0" /\ AuthOk(cfg.upstream.auth)
    /\ cfg.pac # None => AuthOk(cfg.pac.auth)
    /\ cfg.corp # None /\ cfg.corp.on => cfg.corp.suffixes # "" /\ cfg.corp.poll # "0"

\* AuthConfig::keep_password_from.
KeepPassword(auth, old) ==
    IF auth.password = "" /\ auth.basic /\ old.basic /\ auth.user = old.user
    THEN [auth EXCEPT !.password = old.password]
    ELSE auth

\* Mutant: the password is kept for whoever has none.
KeepForAnyUser(auth, old) ==
    IF auth.password = "" /\ auth.basic /\ old.basic
    THEN [auth EXCEPT !.password = old.password]
    ELSE auth

\* A section's auth, with the password of the config it replaces.
MergeAuth(auth, old) == KeepPassword(auth, old)

MergeSection(section, old) ==
    IF section = None \/ old = None THEN section
    ELSE [section EXCEPT !.auth = MergeAuth(section.auth, old.auth)]

\* Config::keep_secrets_from.
KeepSecrets(cfg, old) ==
    [cfg EXCEPT !.upstream = MergeSection(cfg.upstream, old.upstream),
                !.pac = MergeSection(cfg.pac, old.pac)]

-----------------------------------------------------------------------------
(***************************************************************************)
(* The form.                                                               *)
(***************************************************************************)

\* Port 0 means "not set yet" (port_text).
PortText(port) == IF port = "0" THEN "" ELSE port

\* Mutant: what the list does not offer is shown as nothing.
BlankUnlisted(level) == IF level = "hand" THEN "" ELSE level

\* Choice::pick and Choice::name: a value the list does not offer is kept.
Chosen(level) == level

\* ConfigForm::from_config of a redacted config: absent sections show their
\* defaults, passwords are blank.
FormOf(cfg) ==
    LET up == IF cfg.upstream = None THEN [port |-> "0", auth |-> NoAuth] ELSE cfg.upstream
        pac == IF cfg.pac = None THEN NoAuth ELSE cfg.pac.auth
        corp == IF cfg.corp = None THEN [on |-> FALSE, suffixes |-> "", poll |-> "30"]
                ELSE cfg.corp
    IN [listen |-> cfg.listen, mode |-> cfg.mode,
        port |-> PortText(up.port), upBasic |-> up.auth.basic, upUser |-> up.auth.user,
        upPassword |-> "",
        pacBasic |-> pac.basic, pacUser |-> pac.user, pacPassword |-> "",
        corpOn |-> corp.on, suffixes |-> corp.suffixes, poll |-> corp.poll,
        pool |-> cfg.pool, level |-> Chosen(cfg.level)]

\* parse_port, and the number of seconds.
Number(text) == IF Trim(text) \in Numeral THEN Trim(text) ELSE Bad

\* AuthForm::to_auth: blank texts become None.
ToAuth(basic, user, password) ==
    [basic |-> basic, user |-> Trim(user), password |-> Trim(password)]

\* ConfigForm::upstream, pac and corp.
UpstreamOf(f) ==
    IF Number(f.port) = Bad THEN Bad
    ELSE [port |-> Number(f.port), auth |-> ToAuth(f.upBasic, f.upUser, f.upPassword)]

PacOf(f) == [auth |-> ToAuth(f.pacBasic, f.pacUser, f.pacPassword)]

CorpOf(f) ==
    LET poll == IF Trim(f.poll) = "" THEN "30" ELSE Number(f.poll) IN
    IF ~f.corpOn /\ Trim(f.suffixes) = "" THEN None
    ELSE IF poll = Bad THEN Bad
    ELSE [on |-> f.corpOn, suffixes |-> Trim(f.suffixes), poll |-> poll]

\* Mutant: every section is emitted that has something in it.
SectionsInUse(f) ==
    {"pac", "corp"} \cup (IF f.port = "" THEN {} ELSE {"upstream"})

\* The sections of the selected mode are emitted, and no other.
Sections(f) ==
    IF f.mode = "direct" THEN {} ELSE {f.mode, "corp"}

\* ConfigForm::to_config.
ToConfig(f) ==
    LET section(name, value) == IF name \in Sections(f) THEN value ELSE None
        cfg == [listen |-> Number(f.listen), mode |-> f.mode,
                upstream |-> section("upstream", UpstreamOf(f)),
                pac |-> section("pac", PacOf(f)),
                corp |-> section("corp", CorpOf(f)),
                pool |-> f.pool, level |-> f.level]
    IN IF cfg.listen = Bad \/ cfg.upstream = Bad \/ cfg.corp = Bad THEN Bad ELSE cfg

\* What the user can put into each field.
Offered == [
    listen |-> {"8", "x"}, mode |-> Mode,
    port |-> {"7", "0", "x"},
    upBasic |-> BOOLEAN, upUser |-> {"", "u", "v"}, upPassword |-> {"", "q"},
    pacBasic |-> BOOLEAN, pacUser |-> {"", "u"}, pacPassword |-> {"q"},
    corpOn |-> BOOLEAN, suffixes |-> {"", "s"}, poll |-> {"", "9", "0", "x"},
    level |-> {"info"}]

\* The fields on screen (render, auth_fields).
Shown(f) ==
    {"listen", "mode", "level"}
      \cup (IF f.mode = "upstream" THEN {"port", "upBasic"} ELSE {})
      \cup (IF f.mode = "upstream" /\ f.upBasic THEN {"upUser", "upPassword"} ELSE {})
      \cup (IF f.mode = "pac" THEN {"pacBasic"} ELSE {})
      \cup (IF f.mode = "pac" /\ f.pacBasic THEN {"pacUser", "pacPassword"} ELSE {})
      \cup (IF f.mode # "direct" THEN {"corpOn"} ELSE {})
      \cup (IF f.mode # "direct" /\ f.corpOn THEN {"suffixes", "poll"} ELSE {})

HasChanges == form # saved

-----------------------------------------------------------------------------
(***************************************************************************)
(* The page.                                                               *)
(***************************************************************************)
Idle == [pc |-> "idle", cfg |-> None, edited |-> {}, stale |-> FALSE]

\* A save that has not yet replaced the config.
Running(w) == job[w].pc \in {"apply", "commit"}

\* ConfigView::new and reload: the form shows the config there is now.
Load ==
    /\ saved' = FormOf(config)
    /\ form' = FormOf(config)
    /\ edited' = {}
    /\ overtaken' = \E w \in Windows : Running(w)

\* Without a window there is no form; its variables rest at these values.
Blank == FormOf([listen |-> "7", mode |-> "direct", upstream |-> None, pac |-> None,
                 corp |-> None, pool |-> "custom", level |-> "info"])

NoView ==
    /\ form' = Blank /\ saved' = Blank
    /\ saving' = FALSE /\ outcome' = None
    /\ edited' = {} /\ overtaken' = FALSE

Open ==
    /\ window = 0 /\ opens < MaxWindows
    /\ window' = opens + 1
    /\ opens' = opens + 1
    /\ Load
    /\ saving' = FALSE
    /\ outcome' = None
    /\ UNCHANGED <<config, edits, job>>

Close ==
    /\ window # 0
    /\ window' = 0
    /\ NoView
    /\ UNCHANGED <<config, opens, edits, job>>

\* An edit, also while a save is running.
Edit(field, value) ==
    /\ window # 0 /\ edits < MaxEdits
    /\ field \in Shown(form)
    /\ value # form[field]
    /\ form' = [form EXCEPT ![field] = value]
    /\ edited' = edited \cup {field}
    /\ edits' = edits + 1
    /\ UNCHANGED <<config, window, opens, saved, saving, outcome, overtaken, job>>

\* "Discard changes".
Discard ==
    /\ window # 0 /\ ~saving /\ HasChanges
    /\ Load
    /\ outcome' = None
    /\ UNCHANGED <<config, window, opens, saving, edits, job>>

\* ConfigView::save, by the button or Ctrl+S.
Save ==
    /\ window # 0 /\ ~saving /\ HasChanges
    /\ IF ToConfig(form) = Bad
       THEN /\ outcome' = "failed"
            /\ UNCHANGED <<saving, job>>
       ELSE /\ outcome' = None
            /\ saving' = TRUE
            /\ job' = [job EXCEPT ![window] = [pc |-> "apply", cfg |-> ToConfig(form),
                                               edited |-> edited, stale |-> overtaken]]
    /\ UNCHANGED <<config, window, opens, form, saved, edits, edited, overtaken>>

\* Control::apply up to the hook: merge, validate, write the file.
Apply(w, written) ==
    /\ job[w].pc = "apply"
    /\ LET cfg == KeepSecrets(job[w].cfg, config) IN
       job' = [job EXCEPT ![w].cfg = cfg,
                          ![w].pc = IF Valid(cfg) /\ written THEN "commit" ELSE "err"]
    /\ UNCHANGED <<config, viewVars>>

\* The rest of it, and the new config is the current one.
Commit(w) ==
    /\ job[w].pc = "commit"
    /\ config' = job[w].cfg
    /\ job' = [v \in Windows |-> [job[v] EXCEPT !.pc = IF v = w THEN "ok" ELSE @,
                                                !.stale = @ \/ v # w]]
    /\ UNCHANGED viewVars

\* Mutant: the page keeps showing what it held before the save.
SavedAsTyped ==
    /\ saved' = form
    /\ UNCHANGED <<form, edited, overtaken>>

\* What the page shows after its save: the config that was applied.
AfterSave == Load

\* The save's result arrives, unless its window is gone.
Finish(w) ==
    /\ job[w].pc \in {"ok", "err"}
    /\ job' = [job EXCEPT ![w] = Idle]
    /\ IF w = window
       THEN /\ saving' = FALSE
            /\ outcome' = IF job[w].pc = "ok" THEN "saved" ELSE "failed"
            /\ IF job[w].pc = "ok"
               THEN AfterSave
               ELSE UNCHANGED <<form, saved, edited, overtaken>>
       ELSE UNCHANGED <<saving, outcome, form, saved, edited, overtaken>>
    /\ UNCHANGED <<config, window, opens, edits>>

-----------------------------------------------------------------------------
\* The config the program started with, perhaps written by hand: a section the
\* mode does not use, a padded user name, a log level the list does not offer.
Start == {cfg \in
    [listen : {"7"}, mode : Mode,
     upstream : {None} \cup [port : {"7"}, auth :
                   {[basic |-> TRUE, user |-> u, password |-> "p"] : u \in {"u", " u"}}],
     pac : {None} \cup [auth : {[basic |-> TRUE, user |-> "v", password |-> "p"]}],
     corp : {[on |-> TRUE, suffixes |-> "s", poll |-> "9"]},
     pool : {"custom"}, level : {"hand"}] :
    Valid(cfg)}

Init ==
    /\ config \in Start
    /\ window = 0 /\ opens = 0
    /\ form = Blank /\ saved = Blank
    /\ saving = FALSE /\ outcome = None
    /\ job = [w \in Windows |-> Idle]
    /\ edits = 0 /\ edited = {} /\ overtaken = FALSE

User ==
    \/ Open \/ Close \/ Discard \/ Save
    \/ \E field \in DOMAIN Offered : \E value \in Offered[field] : Edit(field, value)

Background ==
    \E w \in Windows :
        \/ \E written \in BOOLEAN : Apply(w, written)
        \/ Commit(w) \/ Finish(w)

Next == User \/ Background

Spec == Init /\ [][Next]_vars

-----------------------------------------------------------------------------
\* Edits are measured against what the proxy is running with (the comment at
\* ConfigView::saved), and after "Saved and applied." the form shows exactly
\* that, however saves, edits, failures and closing the window interleave.
\* Only a form that was loaded while another save was running may be behind.
\* What runs is always valid, and the form keeps its fields.
SavedIsRunning ==
    /\ Valid(config)
    /\ outcome \in {None, "saved", "failed"} /\ window \in 0..opens /\ opens \in 0..MaxWindows
    /\ \A w \in Windows : job[w].pc \in {"idle", "apply", "commit", "ok", "err"}
    /\ window # 0 /\ ~overtaken /\ job[window].pc # "ok" =>
          /\ saved = FormOf(config)
          /\ outcome = "saved" /\ edited = {} => form = FormOf(config)

Applied(w) == job[w].pc = "commit" /\ job'[w].pc = "ok" /\ ~job[w].stale

\* What else a config changes than the fields ed of the form: not the pool, and
\* what is on screen only if a user name is trimmed.
OnlyEdits(new, ed, old) ==
    /\ new.pool = old.pool
    /\ "level" \in ed \/ new.level = old.level
    /\ \A f \in Shown(FormOf(new)) \ ed :
          \/ FormOf(new)[f] = FormOf(old)[f]
          \/ f \in {"upUser", "pacUser"} /\ FormOf(new)[f] = Trim(FormOf(old)[f])

\* A save changes what the user has edited and nothing else that is on screen,
\* and never the pool's settings, which are not: no other edit is undone, no
\* value the list does not offer is lost.  (A form that is behind does undo
\* the save that overtook it.)
OnlyEditsSaved ==
    [][\A w \in Windows : Applied(w) => OnlyEdits(config', job[w].edited, config)]_vars

SlotAuth(cfg, slot) ==
    LET section == IF slot = "upstream" THEN cfg.upstream ELSE cfg.pac
    IN IF section = None THEN NoAuth ELSE section.auth

UserField(slot) == IF slot = "upstream" THEN "upUser" ELSE "pacUser"
PasswordField(slot) == IF slot = "upstream" THEN "upPassword" ELSE "pacPassword"

\* The saved passwords stay with their users, but for what was typed.
KeepsPassword(new, old, slot, typed) ==
    /\ /\ old.basic /\ new.basic /\ old.user = Trim(old.user)
       /\ {UserField(slot), PasswordField(slot)} \cap typed = {}
       => new.password = old.password
    /\ new.user # old.user /\ PasswordField(slot) \notin typed => new.password = ""

\* "Leave blank to keep the saved password": unless a password or a user name
\* was typed, a slot that stays Basic keeps its password; and the password of
\* one user never becomes another's.  (A user name with blanks around it in a
\* hand-written file is trimmed by the save, and then counts as another one.)
PasswordKept ==
    [][\A w \in Windows : Applied(w) => \A slot \in Slot :
          KeepsPassword(SlotAuth(config', slot), SlotAuth(config, slot), slot,
                        job[w].edited)]_vars

\* The form with every field that is not on screen as if it had never been
\* filled in.
OnScreen(f) ==
    [x \in DOMAIN f |-> IF x \in Shown(f) \cup {"pool"} THEN f[x] ELSE Blank[x]]

Blocked(f) == IF ToConfig(f) = Bad THEN TRUE ELSE ~Valid(ToConfig(f))

\* "A half-filled section the user can no longer see never blocks a save": what
\* keeps a form from being applied is on screen.  The one exception is the
\* re-check interval, which is still parsed when the gate has been switched off
\* and its fields are hidden, as long as there are suffixes.
HiddenNeverBlocks ==
    window # 0 /\ Blocked(form) =>
        \/ Blocked(OnScreen(form))
        \/ ~form.corpOn /\ form.suffixes # "" /\ Number(form.poll) = Bad
=============================================================================
