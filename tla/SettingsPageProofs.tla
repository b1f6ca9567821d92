------------------------- MODULE SettingsPageProofs -------------------------
(***************************************************************************)
(* Proofs about SettingsPage.  What a save changes follows from two facts: *)
(* the form differs from the config it was loaded from in the edited       *)
(* fields only (`Edited`), and that config is the one that runs, unless    *)
(* another save ran meanwhile (`Current`).  So a save that starts now      *)
(* would, merged with what runs now, change the edited fields only and     *)
(* keep the passwords (`PromiseKept`, about the conversions between form   *)
(* and config alone); and as long as no other save replaces the config     *)
(* before it does, it still would (`Promises`).                            *)
(***************************************************************************)
EXTENDS SettingsPage, TLAPS

Form ==
    [listen : Text, mode : Mode, port : Text,
     upBasic : BOOLEAN, upUser : Text, upPassword : Text,
     pacBasic : BOOLEAN, pacUser : Text, pacPassword : Text,
     corpOn : BOOLEAN, suffixes : {"", "s"}, poll : Text,
     pool : Text, level : Text]

Job ==
    [pc : {"idle", "apply", "commit", "ok", "err"}, cfg : Config \cup {None},
     edited : SUBSET DOMAIN Offered, stale : BOOLEAN]

TypeOK ==
    /\ config \in Config
    /\ opens \in 0..MaxWindows /\ window \in 0..opens
    /\ form \in Form /\ saved \in Form
    /\ saving \in BOOLEAN /\ overtaken \in BOOLEAN
    /\ outcome \in {None, "saved", "failed"}
    /\ edited \subseteq DOMAIN Offered
    /\ job \in [Windows -> Job]
    /\ \A w \in Windows : job[w].pc \in {"apply", "commit"} => job[w].cfg \in Config

\* What runs, and what is about to run, is valid.
Checked ==
    /\ Valid(config)
    /\ \A w \in Windows : job[w].pc = "commit" => Valid(job[w].cfg)

\* The open window's save is in the background while it is saving and no
\* longer; windows that were never opened have none.  A form that is not behind
\* is not being overtaken.
Jobs ==
    /\ \A w \in Windows : w > opens => job[w].pc = "idle"
    /\ window # 0 /\ ~saving => job[window].pc = "idle"
    /\ window # 0 /\ ~overtaken => \A w \in Windows : Running(w) => w = window

\* The form differs from what it was loaded from in the edited fields.
Edited == \A f \in DOMAIN form \ edited : form[f] = saved[f]

Current ==
    window # 0 /\ ~overtaken /\ job[window].pc # "ok" =>
        /\ saved = FormOf(config)
        /\ outcome = "saved" /\ edited = {} => form = FormOf(config)

\* What applying the config new instead of old is to the fields ed of the form.
Promised(new, ed, old) ==
    /\ OnlyEdits(new, ed, old)
    /\ \A slot \in Slot :
          KeepsPassword(SlotAuth(new, slot), SlotAuth(old, slot), slot, ed)

\* A save that no other overtook keeps its promises.
Promises ==
    \A w \in Windows : ~job[w].stale =>
        /\ job[w].pc = "apply" =>
              Promised(KeepSecrets(job[w].cfg, config), job[w].edited, config)
        /\ job[w].pc = "commit" => Promised(job[w].cfg, job[w].edited, config)

IInv == TypeOK /\ Checked /\ Jobs /\ Edited /\ Current /\ Promises

USE SettingsAssumption
-----------------------------------------------------------------------------
\* Texts: "" and "30" are what a form shows for what is absent.
LEMMA TextFacts ==
    /\ "" \in Text /\ "30" \in Text /\ "0" \in Numeral /\ "30" \in Numeral
    /\ \A t \in Numeral : t \in Text /\ t # Bad /\ t # None
    /\ \A t \in Text : t # Bad /\ t # None
    /\ "saved" # None /\ "failed" # None
  BY DEF SettingsAssumption, Text, Numeral

\* Trimming leaves a text, and once is enough.
LEMMA TrimText ==
    ASSUME NEW t \in Text
    PROVE  Trim(t) \in Text /\ Trim(Trim(t)) = Trim(t)
  BY DEF Trim, Text, Numeral

\* What parses as a number is written as it stands.
LEMMA NumberOf ==
    ASSUME NEW t \in Text, Number(t) # Bad
    PROVE  Number(t) \in Numeral /\ Number(t) = Trim(t)
  BY DEF Number

\* A numeral stands for itself.
LEMMA NumberOfNumeral ==
    ASSUME NEW t \in Numeral
    PROVE  Number(t) = t /\ Trim(t) = t
  BY DEF Number, Numeral, Trim

\* The sections that the form shows for a config, absent ones by default.
UpstreamShown(cfg) == IF cfg.upstream = None THEN [port |-> "0", auth |-> NoAuth] ELSE cfg.upstream
PacShown(cfg) == IF cfg.pac = None THEN NoAuth ELSE cfg.pac.auth
CorpShown(cfg) ==
    IF cfg.corp = None THEN [on |-> FALSE, suffixes |-> "", poll |-> "30"] ELSE cfg.corp

\* They are sections.
LEMMA SectionsShown ==
    ASSUME NEW cfg \in Config
    PROVE  /\ UpstreamShown(cfg) \in Upstream
           /\ PacShown(cfg) \in Auth
           /\ CorpShown(cfg) \in Corp
  <1>1. NoAuth \in Auth
    BY TextFacts DEF NoAuth, Auth
  <1>2. UpstreamShown(cfg) \in Upstream
    <2>1. CASE cfg.upstream = None
      <3>1. [port |-> "0", auth |-> NoAuth] \in Upstream
        BY <1>1, TextFacts DEF Upstream
      <3> QED BY <2>1, <3>1 DEF UpstreamShown
    <2>2. CASE cfg.upstream # None
      BY <2>2 DEF UpstreamShown, Config
    <2> QED BY <2>1, <2>2
  <1>3. PacShown(cfg) \in Auth
    BY <1>1 DEF PacShown, Config, Pac
  <1>4. CorpShown(cfg) \in Corp
    <2>1. CASE cfg.corp = None
      <3>1. [on |-> FALSE, suffixes |-> "", poll |-> "30"] \in Corp
        BY TextFacts DEF Corp
      <3> QED BY <2>1, <3>1 DEF CorpShown
    <2>2. CASE cfg.corp # None
      BY <2>2 DEF CorpShown, Config
    <2> QED BY <2>1, <2>2
  <1> QED BY <1>2, <1>3, <1>4

FormRecord(li, mo, po, ub, uu, up, pb, pu, pp, co, su, pl, pool, le) ==
    [listen |-> li, mode |-> mo, port |-> po, upBasic |-> ub, upUser |-> uu, upPassword |-> up,
     pacBasic |-> pb, pacUser |-> pu, pacPassword |-> pp,
     corpOn |-> co, suffixes |-> su, poll |-> pl, pool |-> pool, level |-> le]

\* The form of a config, field by field.
LEMMA FormOfConfig ==
    ASSUME NEW cfg \in Config
    PROVE  /\ FormOf(cfg) \in Form
           /\ FormOf(cfg).listen = cfg.listen /\ FormOf(cfg).mode = cfg.mode
           /\ FormOf(cfg).port = PortText(UpstreamShown(cfg).port)
           /\ FormOf(cfg).upBasic = UpstreamShown(cfg).auth.basic
           /\ FormOf(cfg).upUser = UpstreamShown(cfg).auth.user
           /\ FormOf(cfg).upPassword = ""
           /\ FormOf(cfg).pacBasic = PacShown(cfg).basic
           /\ FormOf(cfg).pacUser = PacShown(cfg).user
           /\ FormOf(cfg).pacPassword = ""
           /\ FormOf(cfg).corpOn = CorpShown(cfg).on
           /\ FormOf(cfg).suffixes = CorpShown(cfg).suffixes
           /\ FormOf(cfg).poll = CorpShown(cfg).poll
           /\ FormOf(cfg).pool = cfg.pool /\ FormOf(cfg).level = cfg.level
  <1> DEFINE up == UpstreamShown(cfg)
             pac == PacShown(cfg)
             corp == CorpShown(cfg)
  <1>1. FormOf(cfg) = FormRecord(cfg.listen, cfg.mode, PortText(up.port), up.auth.basic,
             up.auth.user, "", pac.basic, pac.user, "", corp.on, corp.suffixes, corp.poll,
             cfg.pool, cfg.level)
    BY DEF FormOf, Chosen, UpstreamShown, PacShown, CorpShown, FormRecord
  <1>2. up.auth \in Auth /\ pac \in Auth /\ corp \in Corp /\ up.port \in Numeral
    BY SectionsShown DEF Upstream
  <1>3. PortText(up.port) \in Text /\ cfg.listen \in Text /\ corp.poll \in Text
    BY <1>2, TextFacts DEF PortText, Config, Corp
  <1> HIDE DEF up, pac, corp
  <1>4. /\ up.auth.basic \in BOOLEAN /\ up.auth.user \in Text
        /\ pac.basic \in BOOLEAN /\ pac.user \in Text
        /\ corp.on \in BOOLEAN /\ corp.suffixes \in {"", "s"}
        /\ cfg.mode \in Mode /\ cfg.pool \in Text /\ cfg.level \in Text
    BY <1>2 DEF Auth, Corp, Config
  <1> DEFINE f == FormOf(cfg)
             po == PortText(up.port)
             ub == up.auth.basic
             uu == up.auth.user
             pb == pac.basic
             pu == pac.user
             co == corp.on
             su == corp.suffixes
             pl == corp.poll
             li == cfg.listen
             mo == cfg.mode
             pool == cfg.pool
             le == cfg.level
  <1>5. /\ f = FormRecord(li, mo, po, ub, uu, "", pb, pu, "", co, su, pl, pool, le)
        /\ li \in Text /\ mo \in Mode /\ po \in Text /\ ub \in BOOLEAN /\ uu \in Text
        /\ "" \in Text /\ pb \in BOOLEAN /\ pu \in Text /\ co \in BOOLEAN /\ su \in {"", "s"}
        /\ pl \in Text /\ pool \in Text /\ le \in Text
    BY <1>1, <1>3, <1>4, TextFacts
  <1> HIDE DEF f, po, ub, uu, pb, pu, co, su, pl, li, mo, pool, le
  <1>6. /\ f \in Form
        /\ f.listen = li /\ f.mode = mo /\ f.port = po
        /\ f.upBasic = ub /\ f.upUser = uu /\ f.upPassword = ""
        /\ f.pacBasic = pb /\ f.pacUser = pu /\ f.pacPassword = ""
        /\ f.corpOn = co /\ f.suffixes = su /\ f.poll = pl
        /\ f.pool = pool /\ f.level = le
    BY <1>5 DEF Form, FormRecord
  <1> QED BY <1>6 DEF up, pac, corp, f, po, ub, uu, pb, pu, co, su, pl, li, mo, pool, le

\* The sections that a form's fields make up.
LEMMA SectionsOf ==
    ASSUME NEW f \in Form
    PROVE  /\ UpstreamOf(f) = Bad <=> Number(f.port) = Bad
           /\ UpstreamOf(f) # Bad =>
                 /\ UpstreamOf(f) \in Upstream /\ UpstreamOf(f).port = Number(f.port)
                 /\ UpstreamOf(f).auth = ToAuth(f.upBasic, f.upUser, f.upPassword)
           /\ PacOf(f) \in Pac
           /\ PacOf(f).auth = ToAuth(f.pacBasic, f.pacUser, f.pacPassword)
           /\ CorpOf(f) # Bad => CorpOf(f) \in Corp \cup {None}
           /\ ToAuth(f.upBasic, f.upUser, f.upPassword) \in Auth
           /\ ToAuth(f.pacBasic, f.pacUser, f.pacPassword) \in Auth
  <1>1. /\ f.port \in Text /\ f.upUser \in Text /\ f.upPassword \in Text /\ f.upBasic \in BOOLEAN
        /\ f.pacUser \in Text /\ f.pacPassword \in Text /\ f.pacBasic \in BOOLEAN
        /\ f.corpOn \in BOOLEAN /\ f.suffixes \in {"", "s"} /\ f.poll \in Text
    BY DEF Form
  <1>2. ASSUME NEW b \in BOOLEAN, NEW u \in Text, NEW p \in Text
        PROVE  ToAuth(b, u, p) \in Auth
    <2>1. Trim(u) \in Text /\ Trim(p) \in Text
      BY TrimText
    <2> QED BY <2>1 DEF ToAuth, Auth
  <1>3. /\ ToAuth(f.upBasic, f.upUser, f.upPassword) \in Auth
        /\ ToAuth(f.pacBasic, f.pacUser, f.pacPassword) \in Auth
    BY <1>1, <1>2
  <1>4. PacOf(f) \in Pac /\ PacOf(f).auth = ToAuth(f.pacBasic, f.pacUser, f.pacPassword)
    BY <1>3 DEF PacOf, Pac
  <1>5. ASSUME Number(f.port) # Bad
        PROVE  /\ UpstreamOf(f) \in Upstream /\ UpstreamOf(f).port = Number(f.port)
               /\ UpstreamOf(f).auth = ToAuth(f.upBasic, f.upUser, f.upPassword)
               /\ UpstreamOf(f) # Bad
    <2>1. Number(f.port) \in Numeral
      BY <1>1, <1>5, NumberOf
    <2>2. UpstreamOf(f) = [port |-> Number(f.port),
                           auth |-> ToAuth(f.upBasic, f.upUser, f.upPassword)]
      BY <1>5 DEF UpstreamOf
    <2>3. UpstreamOf(f) \in Upstream
      BY <1>3, <2>1, <2>2 DEF Upstream
    <2>4. Bad \notin Upstream
      BY DEF SettingsAssumption
    <2> QED BY <2>2, <2>3, <2>4
  <1>6. ASSUME Number(f.port) = Bad
        PROVE  UpstreamOf(f) = Bad
    BY <1>6 DEF UpstreamOf
  <1>7. ASSUME CorpOf(f) # Bad
        PROVE  CorpOf(f) \in Corp \cup {None}
    <2> DEFINE poll == IF Trim(f.poll) = "" THEN "30" ELSE Number(f.poll)
    <2>1. poll = Bad \/ poll \in Numeral
      BY <1>1, NumberOf, TextFacts
    <2>2. CorpOf(f) = IF ~f.corpOn /\ Trim(f.suffixes) = "" THEN None
                      ELSE IF poll = Bad THEN Bad
                      ELSE [on |-> f.corpOn, suffixes |-> Trim(f.suffixes), poll |-> poll]
      BY DEF CorpOf
    <2> HIDE DEF poll
    <2>3. Trim(f.suffixes) \in {"", "s"}
      BY <1>1 DEF Trim
    <2>4. poll \in Numeral =>
             [on |-> f.corpOn, suffixes |-> Trim(f.suffixes), poll |-> poll] \in Corp
      BY <1>1, <2>3 DEF Corp
    <2> QED BY <1>7, <2>1, <2>2, <2>4
  <1> QED BY <1>3, <1>4, <1>5, <1>6, <1>7

\* What a form that parses is as a config.
LEMMA ToConfigOf ==
    ASSUME NEW f \in Form, ToConfig(f) # Bad
    PROVE  /\ ToConfig(f) \in Config
           /\ Number(f.listen) # Bad
           /\ f.mode = "upstream" => UpstreamOf(f) # Bad
           /\ f.mode # "direct" => CorpOf(f) # Bad
           /\ ToConfig(f).listen = Number(f.listen) /\ ToConfig(f).mode = f.mode
           /\ ToConfig(f).upstream = IF f.mode = "upstream" THEN UpstreamOf(f) ELSE None
           /\ ToConfig(f).pac = IF f.mode = "pac" THEN PacOf(f) ELSE None
           /\ ToConfig(f).corp = IF f.mode = "direct" THEN None ELSE CorpOf(f)
           /\ ToConfig(f).pool = f.pool /\ ToConfig(f).level = f.level
  <1> DEFINE li == Number(f.listen)
             up == IF f.mode = "upstream" THEN UpstreamOf(f) ELSE None
             pac == IF f.mode = "pac" THEN PacOf(f) ELSE None
             corp == IF f.mode = "direct" THEN None ELSE CorpOf(f)
             mo == f.mode
             pool == f.pool
             le == f.level
             cfg == [listen |-> li, mode |-> mo, upstream |-> up, pac |-> pac, corp |-> corp,
                     pool |-> pool, level |-> le]
  <1>1. /\ f.listen \in Text /\ mo \in Mode /\ pool \in Text /\ le \in Text
    BY DEF Form
  <1>2. /\ "upstream" \in Sections(f) <=> f.mode = "upstream"
        /\ "pac" \in Sections(f) <=> f.mode = "pac"
        /\ "corp" \in Sections(f) <=> f.mode # "direct"
    BY <1>1 DEF Sections, Mode
  <1>3. ToConfig(f) = IF cfg.listen = Bad \/ cfg.upstream = Bad \/ cfg.corp = Bad
                      THEN Bad ELSE cfg
    BY <1>2 DEF ToConfig
  <1>4. up # Bad => up \in Upstream \cup {None}
    BY SectionsOf
  <1>5. pac \in Pac \cup {None}
    BY SectionsOf
  <1>6. corp # Bad => corp \in Corp \cup {None}
    BY SectionsOf
  <1>7. li # Bad => li \in Numeral
    BY <1>1, NumberOf
  <1>8. (f.mode = "upstream" => up = UpstreamOf(f)) /\ (f.mode # "direct" => corp = CorpOf(f))
    OBVIOUS
  <1> HIDE DEF li, up, pac, corp, mo, pool, le
  <1>9. /\ ToConfig(f) = cfg
        /\ li # Bad /\ up # Bad /\ corp # Bad
    BY <1>3
  <1>10. cfg \in Config
    BY <1>1, <1>4, <1>5, <1>6, <1>7, <1>9 DEF Config
  <1>11. /\ cfg.listen = li /\ cfg.mode = mo /\ cfg.upstream = up /\ cfg.pac = pac
         /\ cfg.corp = corp /\ cfg.pool = pool /\ cfg.level = le
    OBVIOUS
  <1> HIDE DEF cfg
  <1> QED BY <1>8, <1>9, <1>10, <1>11 DEF li, up, pac, corp, mo, pool, le

\* What a slot becomes: its password is the old one or its own.
LEMMA MergeAuthIs ==
    ASSUME NEW auth \in Auth, NEW old \in Auth
    PROVE  /\ MergeAuth(auth, old) \in Auth
           /\ MergeAuth(auth, old).basic = auth.basic /\ MergeAuth(auth, old).user = auth.user
           /\ MergeAuth(auth, old).password =
                 IF auth.password = "" /\ auth.basic /\ old.basic /\ auth.user = old.user
                 THEN old.password ELSE auth.password
  BY DEF MergeAuth, KeepPassword, Auth

\* What keeping the secrets makes of a config.
LEMMA KeepSecretsIs ==
    ASSUME NEW cfg \in Config, NEW old \in Config
    PROVE  /\ KeepSecrets(cfg, old) \in Config
           /\ KeepSecrets(cfg, old).listen = cfg.listen
           /\ KeepSecrets(cfg, old).mode = cfg.mode
           /\ KeepSecrets(cfg, old).corp = cfg.corp
           /\ KeepSecrets(cfg, old).pool = cfg.pool
           /\ KeepSecrets(cfg, old).level = cfg.level
           /\ KeepSecrets(cfg, old).upstream = None <=> cfg.upstream = None
           /\ KeepSecrets(cfg, old).pac = None <=> cfg.pac = None
           /\ cfg.upstream # None =>
                 /\ KeepSecrets(cfg, old).upstream.port = cfg.upstream.port
                 /\ KeepSecrets(cfg, old).upstream.auth =
                       IF old.upstream = None THEN cfg.upstream.auth
                       ELSE MergeAuth(cfg.upstream.auth, old.upstream.auth)
           /\ cfg.pac # None =>
                 KeepSecrets(cfg, old).pac.auth =
                       IF old.pac = None THEN cfg.pac.auth
                       ELSE MergeAuth(cfg.pac.auth, old.pac.auth)
  <1> DEFINE up == MergeSection(cfg.upstream, old.upstream)
             pac == MergeSection(cfg.pac, old.pac)
             new == [cfg EXCEPT !.upstream = up, !.pac = pac]
  <1>1. KeepSecrets(cfg, old) = new
    BY DEF KeepSecrets
  <1>2. None \notin Upstream /\ None \notin Pac
    BY DEF SettingsAssumption
  <1>3. /\ up \in Upstream \cup {None}
        /\ up = None <=> cfg.upstream = None
        /\ cfg.upstream # None =>
              /\ up.port = cfg.upstream.port
              /\ up.auth = IF old.upstream = None THEN cfg.upstream.auth
                           ELSE MergeAuth(cfg.upstream.auth, old.upstream.auth)
    <2>1. CASE cfg.upstream = None \/ old.upstream = None
      BY <1>2, <2>1 DEF Config, MergeSection
    <2>2. CASE cfg.upstream # None /\ old.upstream # None
      <3>1. cfg.upstream \in Upstream /\ old.upstream \in Upstream
        BY <2>2 DEF Config
      <3>2. cfg.upstream.auth \in Auth /\ old.upstream.auth \in Auth
        BY <3>1 DEF Upstream
      <3>3. MergeAuth(cfg.upstream.auth, old.upstream.auth) \in Auth
        BY <3>2, MergeAuthIs
      <3> QED BY <1>2, <2>2, <3>1, <3>3 DEF Upstream, MergeSection
    <2> QED BY <2>1, <2>2
  <1>4. /\ pac \in Pac \cup {None}
        /\ pac = None <=> cfg.pac = None
        /\ cfg.pac # None =>
              pac.auth = IF old.pac = None THEN cfg.pac.auth
                         ELSE MergeAuth(cfg.pac.auth, old.pac.auth)
    <2>1. CASE cfg.pac = None \/ old.pac = None
      BY <1>2, <2>1 DEF Config, MergeSection
    <2>2. CASE cfg.pac # None /\ old.pac # None
      <3>1. cfg.pac \in Pac /\ old.pac \in Pac
        BY <2>2 DEF Config
      <3>2. cfg.pac.auth \in Auth /\ old.pac.auth \in Auth
        BY <3>1 DEF Pac
      <3>3. MergeAuth(cfg.pac.auth, old.pac.auth) \in Auth
        BY <3>2, MergeAuthIs
      <3> QED BY <1>2, <2>2, <3>1, <3>3 DEF Pac, MergeSection
    <2> QED BY <2>1, <2>2
  <1> HIDE DEF up, pac
  <1>5. /\ new \in Config /\ new.listen = cfg.listen /\ new.mode = cfg.mode
        /\ new.corp = cfg.corp /\ new.pool = cfg.pool /\ new.level = cfg.level
        /\ new.upstream = up /\ new.pac = pac
    <2>1. up \in Upstream \cup {None} /\ pac \in Pac \cup {None}
      BY <1>3, <1>4
    <2> DEFINE mid == [cfg EXCEPT !.upstream = up]
    <2>2. /\ mid \in Config /\ mid.listen = cfg.listen /\ mid.mode = cfg.mode
          /\ mid.corp = cfg.corp /\ mid.pool = cfg.pool /\ mid.level = cfg.level
          /\ mid.upstream = up
      BY <2>1 DEF Config
    <2>3. new = [mid EXCEPT !.pac = pac]
      OBVIOUS
    <2> HIDE DEF mid, new
    <2> QED BY <2>1, <2>2, <2>3 DEF Config
  <1> HIDE DEF new
  <1> QED BY <1>1, <1>3, <1>4, <1>5

-----------------------------------------------------------------------------
\* What was not edited is as it was loaded; the pool cannot be edited.
LEMMA Unedited ==
    ASSUME NEW g \in Form, NEW h \in Form, NEW ed \in SUBSET DOMAIN Offered,
           \A f \in DOMAIN g \ ed : g[f] = h[f]
    PROVE  /\ "listen" \in ed \/ g.listen = h.listen
           /\ "mode" \in ed \/ g.mode = h.mode
           /\ "port" \in ed \/ g.port = h.port
           /\ "upBasic" \in ed \/ g.upBasic = h.upBasic
           /\ "upUser" \in ed \/ g.upUser = h.upUser
           /\ "upPassword" \in ed \/ g.upPassword = h.upPassword
           /\ "pacBasic" \in ed \/ g.pacBasic = h.pacBasic
           /\ "pacUser" \in ed \/ g.pacUser = h.pacUser
           /\ "pacPassword" \in ed \/ g.pacPassword = h.pacPassword
           /\ "corpOn" \in ed \/ g.corpOn = h.corpOn
           /\ "suffixes" \in ed \/ g.suffixes = h.suffixes
           /\ "poll" \in ed \/ g.poll = h.poll
           /\ "level" \in ed \/ g.level = h.level
           /\ g.pool = h.pool
  <1>1. "pool" \notin ed
    BY DEF Offered
  <1>2. DOMAIN g = {"listen", "mode", "port", "upBasic", "upUser", "upPassword", "pacBasic",
                    "pacUser", "pacPassword", "corpOn", "suffixes", "poll", "pool", "level"}
    BY DEF Form
  <1> QED BY <1>1, <1>2

\* new is what the form's auth makes of a slot whose auth was old, or absent.
AuthFrom(new, auth, old) ==
    \/ new = MergeAuth(auth, old)
    \/ new = auth /\ old = NoAuth

\* The password is kept for the same user, and for no other.
LEMMA AuthKept ==
    ASSUME NEW auth \in Auth, NEW old \in Auth, NEW new, AuthFrom(new, auth, old)
    PROVE  /\ new.basic = auth.basic /\ new.user = auth.user
           /\ new.password =
                 IF auth.password = "" /\ auth.basic /\ old.basic /\ auth.user = old.user
                 THEN old.password ELSE auth.password
  <1>1. CASE new = MergeAuth(auth, old)
    <2>1. /\ new.basic = auth.basic /\ new.user = auth.user
          /\ new.password = IF auth.password = "" /\ auth.basic /\ old.basic /\ auth.user = old.user
                            THEN old.password ELSE auth.password
      BY <1>1, MergeAuthIs
    <2> QED BY <2>1
  <1>2. CASE new = auth /\ old = NoAuth
    BY <1>2 DEF NoAuth
  <1> QED BY <1>1, <1>2 DEF AuthFrom

\* The config that a save of the form g puts in the place of old, slot by slot.
LEMMA SlotsOf ==
    ASSUME NEW g \in Form, NEW old \in Config, ToConfig(g) # Bad,
           NEW new, new = KeepSecrets(ToConfig(g), old)
    PROVE  /\ new \in Config
           /\ new.listen = Number(g.listen) /\ new.mode = g.mode
           /\ new.pool = g.pool /\ new.level = g.level
           /\ new.corp = IF g.mode = "direct" THEN None ELSE CorpOf(g)
           /\ g.mode # "upstream" => SlotAuth(new, "upstream") = NoAuth
           /\ g.mode # "pac" => SlotAuth(new, "pac") = NoAuth
           /\ g.mode = "upstream" =>
                 /\ new.upstream # None /\ new.upstream.port = Number(g.port)
                 /\ AuthFrom(SlotAuth(new, "upstream"), ToAuth(g.upBasic, g.upUser, g.upPassword),
                             SlotAuth(old, "upstream"))
           /\ g.mode = "pac" =>
                 AuthFrom(SlotAuth(new, "pac"), ToAuth(g.pacBasic, g.pacUser, g.pacPassword),
                          SlotAuth(old, "pac"))
           /\ SlotAuth(new, "upstream") \in Auth /\ SlotAuth(new, "pac") \in Auth
           /\ SlotAuth(old, "upstream") \in Auth /\ SlotAuth(old, "pac") \in Auth
  <1> DEFINE cfg == ToConfig(g)
  <1>1. /\ cfg \in Config
        /\ g.mode = "upstream" => UpstreamOf(g) # Bad
        /\ cfg.listen = Number(g.listen) /\ cfg.mode = g.mode
        /\ cfg.upstream = IF g.mode = "upstream" THEN UpstreamOf(g) ELSE None
        /\ cfg.pac = IF g.mode = "pac" THEN PacOf(g) ELSE None
        /\ cfg.corp = IF g.mode = "direct" THEN None ELSE CorpOf(g)
        /\ cfg.pool = g.pool /\ cfg.level = g.level
    BY ToConfigOf
  <1> HIDE DEF cfg
  <1>2. /\ new \in Config
        /\ new.listen = cfg.listen /\ new.mode = cfg.mode /\ new.corp = cfg.corp
        /\ new.pool = cfg.pool /\ new.level = cfg.level
        /\ new.upstream = None <=> cfg.upstream = None
        /\ new.pac = None <=> cfg.pac = None
        /\ cfg.upstream # None =>
              /\ new.upstream.port = cfg.upstream.port
              /\ new.upstream.auth = IF old.upstream = None THEN cfg.upstream.auth
                                     ELSE MergeAuth(cfg.upstream.auth, old.upstream.auth)
        /\ cfg.pac # None =>
              new.pac.auth = IF old.pac = None THEN cfg.pac.auth
                             ELSE MergeAuth(cfg.pac.auth, old.pac.auth)
    BY <1>1, KeepSecretsIs DEF cfg
  <1>3. \A c \in Config : /\ SlotAuth(c, "upstream") = IF c.upstream = None THEN NoAuth ELSE c.upstream.auth
                          /\ SlotAuth(c, "pac") = IF c.pac = None THEN NoAuth ELSE c.pac.auth
    BY DEF SlotAuth
  <1>4. NoAuth \in Auth
    BY TextFacts DEF NoAuth, Auth
  <1>5. \A c \in Config : SlotAuth(c, "upstream") \in Auth /\ SlotAuth(c, "pac") \in Auth
    BY <1>3, <1>4 DEF Config, Upstream, Pac
  <1>6. None \notin Upstream /\ None \notin Pac
    BY DEF SettingsAssumption
  <1>7. /\ UpstreamOf(g) # Bad =>
              /\ UpstreamOf(g) \in Upstream /\ UpstreamOf(g).port = Number(g.port)
              /\ UpstreamOf(g).auth = ToAuth(g.upBasic, g.upUser, g.upPassword)
        /\ PacOf(g) \in Pac /\ PacOf(g).auth = ToAuth(g.pacBasic, g.pacUser, g.pacPassword)
    BY SectionsOf
  <1>8. ASSUME g.mode = "upstream"
        PROVE  /\ new.upstream # None /\ new.upstream.port = Number(g.port)
               /\ AuthFrom(SlotAuth(new, "upstream"), ToAuth(g.upBasic, g.upUser, g.upPassword),
                           SlotAuth(old, "upstream"))
    <2>1. cfg.upstream = UpstreamOf(g) /\ UpstreamOf(g) \in Upstream /\ cfg.upstream # None
      BY <1>1, <1>6, <1>7, <1>8
    <2>2. /\ new.upstream # None /\ new.upstream.port = Number(g.port)
          /\ new.upstream.auth = IF old.upstream = None THEN cfg.upstream.auth
                                 ELSE MergeAuth(cfg.upstream.auth, old.upstream.auth)
          /\ cfg.upstream.auth = ToAuth(g.upBasic, g.upUser, g.upPassword)
      BY <1>1, <1>2, <1>7, <1>8, <2>1
    <2> QED BY <1>2, <1>3, <2>2 DEF AuthFrom
  <1>9. ASSUME g.mode = "pac"
        PROVE  AuthFrom(SlotAuth(new, "pac"), ToAuth(g.pacBasic, g.pacUser, g.pacPassword),
                        SlotAuth(old, "pac"))
    <2>1. cfg.pac = PacOf(g) /\ cfg.pac # None
      BY <1>1, <1>6, <1>7, <1>9
    <2>2. /\ new.pac # None
          /\ new.pac.auth = IF old.pac = None THEN cfg.pac.auth
                            ELSE MergeAuth(cfg.pac.auth, old.pac.auth)
          /\ cfg.pac.auth = ToAuth(g.pacBasic, g.pacUser, g.pacPassword)
      BY <1>2, <1>7, <2>1
    <2> QED BY <1>2, <1>3, <2>2 DEF AuthFrom
  <1>10. g.mode # "upstream" => SlotAuth(new, "upstream") = NoAuth
    BY <1>1, <1>2, <1>3
  <1>11. g.mode # "pac" => SlotAuth(new, "pac") = NoAuth
    BY <1>1, <1>2, <1>3
  <1> QED BY <1>1, <1>2, <1>5, <1>8, <1>9, <1>10, <1>11

\* A save keeps the passwords that were not typed.
LEMMA PasswordPromise ==
    ASSUME NEW g \in Form, NEW old \in Config, ToConfig(g) # Bad,
           NEW ed \in SUBSET DOMAIN Offered,
           \A f \in DOMAIN g \ ed : g[f] = FormOf(old)[f],
           NEW new, new = KeepSecrets(ToConfig(g), old)
    PROVE  /\ KeepsPassword(SlotAuth(new, "upstream"), SlotAuth(old, "upstream"), "upstream", ed)
           /\ KeepsPassword(SlotAuth(new, "pac"), SlotAuth(old, "pac"), "pac", ed)
  <1>1. FormOf(old) \in Form
    BY FormOfConfig
  <1>2. /\ "upUser" \in ed \/ g.upUser = FormOf(old).upUser
        /\ "upPassword" \in ed \/ g.upPassword = FormOf(old).upPassword
        /\ "pacUser" \in ed \/ g.pacUser = FormOf(old).pacUser
        /\ "pacPassword" \in ed \/ g.pacPassword = FormOf(old).pacPassword
    BY <1>1, Unedited
  <1>3. /\ FormOf(old).upUser = SlotAuth(old, "upstream").user /\ FormOf(old).upPassword = ""
        /\ FormOf(old).pacUser = SlotAuth(old, "pac").user /\ FormOf(old).pacPassword = ""
    <2>1. /\ UpstreamShown(old).auth = SlotAuth(old, "upstream")
          /\ PacShown(old) = SlotAuth(old, "pac")
      BY DEF UpstreamShown, PacShown, SlotAuth
    <2> QED BY <2>1, FormOfConfig
  <1>4. /\ g.upBasic \in BOOLEAN /\ g.upUser \in Text /\ g.upPassword \in Text
        /\ g.pacBasic \in BOOLEAN /\ g.pacUser \in Text /\ g.pacPassword \in Text
    BY DEF Form
  <1>5. KeepsPassword(SlotAuth(new, "upstream"), SlotAuth(old, "upstream"), "upstream", ed)
    <2> DEFINE n == SlotAuth(new, "upstream")
               o == SlotAuth(old, "upstream")
    <2>1. n \in Auth /\ o \in Auth
      BY SlotsOf
    <2>2. CASE g.mode = "upstream"
      <3>1. AuthFrom(n, ToAuth(g.upBasic, g.upUser, g.upPassword), o)
        BY <2>2, SlotsOf
      <3> DEFINE a == ToAuth(g.upBasic, g.upUser, g.upPassword)
      <3> HIDE DEF n, o
      <3>2. /\ o.basic /\ n.basic /\ o.user = Trim(o.user) /\ g.upUser = o.user /\ g.upPassword = ""
               => n.password = o.password
            /\ n.user # o.user /\ g.upPassword = "" => n.password = ""
        <4>1. a \in Auth /\ AuthFrom(n, a, o)
          BY <3>1, SectionsOf
        <4>2. a.user = Trim(g.upUser) /\ a.password = Trim(g.upPassword) /\ Trim("") = ""
          BY DEF ToAuth, Trim
        <4> HIDE DEF a
        <4>3. /\ n.basic = a.basic /\ n.user = a.user
              /\ n.password = IF a.password = "" /\ a.basic /\ o.basic /\ a.user = o.user
                              THEN o.password ELSE a.password
          BY <2>1, <4>1, AuthKept, ZenonT(30)
        <4> QED BY <4>2, <4>3
      <3>3. /\ "upUser" \in ed \/ g.upUser = o.user
            /\ "upPassword" \in ed \/ g.upPassword = ""
        BY <1>2, <1>3 DEF o
      <3>4. KeepsPassword(n, o, "upstream", ed)
        BY <3>2, <3>3 DEF KeepsPassword, UserField, PasswordField
      <3> QED BY <3>4 DEF n, o
    <2>3. CASE g.mode # "upstream"
      <3>1. n = NoAuth
        BY <2>3, SlotsOf
      <3> HIDE DEF n, o
      <3>2. ~n.basic /\ n.password = ""
        BY <3>1 DEF NoAuth
      <3>3. KeepsPassword(n, o, "upstream", ed)
        BY <3>2 DEF KeepsPassword
      <3> QED BY <3>3 DEF n, o
    <2> QED BY <2>2, <2>3
  <1>6. KeepsPassword(SlotAuth(new, "pac"), SlotAuth(old, "pac"), "pac", ed)
    <2> DEFINE n == SlotAuth(new, "pac")
               o == SlotAuth(old, "pac")
    <2>1. n \in Auth /\ o \in Auth
      BY SlotsOf
    <2>2. CASE g.mode = "pac"
      <3>1. AuthFrom(n, ToAuth(g.pacBasic, g.pacUser, g.pacPassword), o)
        BY <2>2, SlotsOf
      <3> DEFINE a == ToAuth(g.pacBasic, g.pacUser, g.pacPassword)
      <3> HIDE DEF n, o
      <3>2. /\ o.basic /\ n.basic /\ o.user = Trim(o.user) /\ g.pacUser = o.user /\ g.pacPassword = ""
               => n.password = o.password
            /\ n.user # o.user /\ g.pacPassword = "" => n.password = ""
        <4>1. a \in Auth /\ AuthFrom(n, a, o)
          BY <3>1, SectionsOf
        <4>2. a.user = Trim(g.pacUser) /\ a.password = Trim(g.pacPassword) /\ Trim("") = ""
          BY DEF ToAuth, Trim
        <4> HIDE DEF a
        <4>3. /\ n.basic = a.basic /\ n.user = a.user
              /\ n.password = IF a.password = "" /\ a.basic /\ o.basic /\ a.user = o.user
                              THEN o.password ELSE a.password
          BY <2>1, <4>1, AuthKept, ZenonT(30)
        <4> QED BY <4>2, <4>3
      <3>3. /\ "pacUser" \in ed \/ g.pacUser = o.user
            /\ "pacPassword" \in ed \/ g.pacPassword = ""
        BY <1>2, <1>3 DEF o
      <3>4. KeepsPassword(n, o, "pac", ed)
        BY <3>2, <3>3 DEF KeepsPassword, UserField, PasswordField
      <3> QED BY <3>4 DEF n, o
    <2>3. CASE g.mode # "pac"
      <3>1. n = NoAuth
        BY <2>3, SlotsOf
      <3> HIDE DEF n, o
      <3>2. ~n.basic /\ n.password = ""
        BY <3>1 DEF NoAuth
      <3>3. KeepsPassword(n, o, "pac", ed)
        BY <3>2 DEF KeepsPassword
      <3> QED BY <3>3 DEF n, o
    <2> QED BY <2>2, <2>3
  <1> QED BY <1>5, <1>6

\* When a field is on screen.
LEMMA ShownIs ==
    ASSUME NEW h, NEW f \in Shown(h)
    PROVE  \/ f \in {"listen", "mode", "level"}
           \/ f \in {"port", "upBasic", "upUser", "upPassword"} /\ h.mode = "upstream"
           \/ f \in {"pacBasic", "pacUser", "pacPassword"} /\ h.mode = "pac"
           \/ f = "corpOn" /\ h.mode # "direct"
           \/ f \in {"suffixes", "poll"} /\ h.mode # "direct" /\ h.corpOn
  BY DEF Shown

\* Numbers survive being shown and parsed; port 0 is shown as nothing, which is
\* no number.
LEMMA PortParsed ==
    ASSUME NEW q \in Numeral, Number(PortText(q)) # Bad
    PROVE  PortText(Number(PortText(q))) = PortText(q)
  <1>1. CASE q = "0"
    <2>1. PortText(q) = ""
      BY <1>1 DEF PortText
    <2>2. Number("") = Bad
      BY DEF Number, Trim, Numeral
    <2> QED BY <2>1, <2>2
  <1>2. CASE q # "0"
    <2>1. PortText(q) = q
      BY <1>2 DEF PortText
    <2> QED BY <2>1, NumberOfNumeral
  <1> QED BY <1>1, <1>2

\* A save changes what was edited and nothing else on screen.
LEMMA EditsPromise ==
    ASSUME NEW g \in Form, NEW old \in Config, ToConfig(g) # Bad,
           NEW ed \in SUBSET DOMAIN Offered,
           \A f \in DOMAIN g \ ed : g[f] = FormOf(old)[f],
           NEW new, new = KeepSecrets(ToConfig(g), old)
    PROVE  OnlyEdits(new, ed, old)
  <1> DEFINE h == FormOf(old)
             k == FormOf(new)
  <1>1. /\ new \in Config
        /\ new.listen = Number(g.listen) /\ new.mode = g.mode
        /\ new.pool = g.pool /\ new.level = g.level
        /\ new.corp = IF g.mode = "direct" THEN None ELSE CorpOf(g)
    BY SlotsOf
  <1>2. h \in Form /\ k \in Form
    BY <1>1, FormOfConfig
  <1>3. /\ "listen" \in ed \/ g.listen = h.listen
        /\ "mode" \in ed \/ g.mode = h.mode
        /\ "port" \in ed \/ g.port = h.port
        /\ "upBasic" \in ed \/ g.upBasic = h.upBasic
        /\ "upUser" \in ed \/ g.upUser = h.upUser
        /\ "pacBasic" \in ed \/ g.pacBasic = h.pacBasic
        /\ "pacUser" \in ed \/ g.pacUser = h.pacUser
        /\ "corpOn" \in ed \/ g.corpOn = h.corpOn
        /\ "suffixes" \in ed \/ g.suffixes = h.suffixes
        /\ "poll" \in ed \/ g.poll = h.poll
        /\ "level" \in ed \/ g.level = h.level
        /\ g.pool = h.pool
    BY <1>2, Unedited
  <1>4. /\ h.listen = old.listen /\ h.mode = old.mode
        /\ h.port = PortText(UpstreamShown(old).port) /\ UpstreamShown(old).port \in Numeral
        /\ h.upPassword = "" /\ h.pacPassword = ""
        /\ h.poll \in Numeral /\ h.suffixes \in {"", "s"}
        /\ h.pool = old.pool /\ h.level = old.level
        /\ old.listen \in Numeral
    BY FormOfConfig, SectionsShown DEF Upstream, Corp, Config
  <1>5. /\ k.listen = new.listen /\ k.mode = new.mode
        /\ k.port = PortText(UpstreamShown(new).port)
        /\ k.upBasic = UpstreamShown(new).auth.basic /\ k.upUser = UpstreamShown(new).auth.user
        /\ k.upPassword = "" /\ k.pacPassword = ""
        /\ k.pacBasic = PacShown(new).basic /\ k.pacUser = PacShown(new).user
        /\ k.corpOn = CorpShown(new).on /\ k.suffixes = CorpShown(new).suffixes
        /\ k.poll = CorpShown(new).poll
        /\ k.level = new.level
    BY <1>1, FormOfConfig
  <1>6. /\ g.corpOn \in BOOLEAN /\ g.suffixes \in {"", "s"} /\ g.poll \in Text
        /\ g.mode \in Mode /\ g.upBasic \in BOOLEAN /\ g.pacBasic \in BOOLEAN
    BY DEF Form
  <1> HIDE DEF h, k
  <1>7. new.pool = old.pool /\ ("level" \in ed \/ new.level = old.level)
    BY <1>1, <1>3, <1>4
  <1>8. ASSUME NEW f \in {"listen", "mode", "level"}, f \notin ed
        PROVE  k[f] = h[f]
    <2>1. "listen" \notin ed => Number(g.listen) = old.listen
      BY <1>3, <1>4, NumberOfNumeral
    <2> QED BY <1>1, <1>3, <1>4, <1>5, <1>8, <2>1, ZenonT(30)
  <1>9. ASSUME k.mode = "upstream", NEW f \in {"port", "upBasic", "upUser", "upPassword"},
               f \notin ed
        PROVE  k[f] = h[f] \/ (f = "upUser" /\ k[f] = Trim(h[f]))
    <2>1. /\ new.upstream # None /\ new.upstream.port = Number(g.port)
          /\ AuthFrom(SlotAuth(new, "upstream"), ToAuth(g.upBasic, g.upUser, g.upPassword),
                      SlotAuth(old, "upstream"))
          /\ SlotAuth(old, "upstream") \in Auth
      <3>1. g.mode = "upstream"
        BY <1>1, <1>5, <1>9
      <3> QED BY <3>1, SlotsOf
    <2>2. UpstreamShown(new) = new.upstream /\ SlotAuth(new, "upstream") = new.upstream.auth
      BY <2>1 DEF UpstreamShown, SlotAuth
    <2>3. /\ ToAuth(g.upBasic, g.upUser, g.upPassword) \in Auth
          /\ ToAuth(g.upBasic, g.upUser, g.upPassword).basic = g.upBasic
          /\ ToAuth(g.upBasic, g.upUser, g.upPassword).user = Trim(g.upUser)
      <3>1. ToAuth(g.upBasic, g.upUser, g.upPassword) \in Auth
        BY SectionsOf
      <3> QED BY <3>1 DEF ToAuth
    <2>4. new.upstream.auth.basic = g.upBasic /\ new.upstream.auth.user = Trim(g.upUser)
      <3> DEFINE a == ToAuth(g.upBasic, g.upUser, g.upPassword)
                 n == SlotAuth(new, "upstream")
                 o == SlotAuth(old, "upstream")
      <3>1. a \in Auth /\ o \in Auth /\ AuthFrom(n, a, o)
        BY <2>1, <2>3
      <3>2. a.basic = g.upBasic /\ a.user = Trim(g.upUser)
        BY <2>3
      <3>3. n = new.upstream.auth
        BY <2>2
      <3> HIDE DEF a, n, o
      <3>4. n.basic = a.basic /\ n.user = a.user
        BY <3>1, AuthKept, ZenonT(30)
      <3> QED BY <3>2, <3>3, <3>4
    <2>5. Number(g.port) # Bad
      <3>1. g.mode = "upstream" /\ UpstreamOf(g) # Bad
        BY <1>1, <1>5, <1>9, ToConfigOf
      <3> QED BY <3>1, SectionsOf
    <2>6. "port" \notin ed => PortText(Number(g.port)) = h.port
      BY <1>3, <1>4, <2>5, PortParsed, ZenonT(30)
    <2>7. CASE f = "port"
      BY <1>5, <1>9, <2>1, <2>2, <2>6, <2>7, ZenonT(30)
    <2>8. CASE f = "upBasic"
      BY <1>3, <1>5, <1>9, <2>2, <2>4, <2>8
    <2>9. CASE f = "upUser"
      BY <1>3, <1>5, <1>9, <2>2, <2>4, <2>9
    <2>10. CASE f = "upPassword"
      BY <1>4, <1>5, <2>10
    <2> QED BY <2>7, <2>8, <2>9, <2>10
  <1>10. ASSUME k.mode = "pac", NEW f \in {"pacBasic", "pacUser", "pacPassword"}, f \notin ed
         PROVE  k[f] = h[f] \/ (f = "pacUser" /\ k[f] = Trim(h[f]))
    <2>1. /\ AuthFrom(SlotAuth(new, "pac"), ToAuth(g.pacBasic, g.pacUser, g.pacPassword),
                      SlotAuth(old, "pac"))
          /\ SlotAuth(old, "pac") \in Auth
      <3>1. g.mode = "pac"
        BY <1>1, <1>5, <1>10
      <3> QED BY <3>1, SlotsOf
    <2>2. PacShown(new) = SlotAuth(new, "pac")
      BY DEF PacShown, SlotAuth
    <2>3. /\ ToAuth(g.pacBasic, g.pacUser, g.pacPassword) \in Auth
          /\ ToAuth(g.pacBasic, g.pacUser, g.pacPassword).basic = g.pacBasic
          /\ ToAuth(g.pacBasic, g.pacUser, g.pacPassword).user = Trim(g.pacUser)
      <3>1. ToAuth(g.pacBasic, g.pacUser, g.pacPassword) \in Auth
        BY SectionsOf
      <3> QED BY <3>1 DEF ToAuth
    <2>4. PacShown(new).basic = g.pacBasic /\ PacShown(new).user = Trim(g.pacUser)
      <3> DEFINE a == ToAuth(g.pacBasic, g.pacUser, g.pacPassword)
                 n == SlotAuth(new, "pac")
                 o == SlotAuth(old, "pac")
      <3>1. /\ a \in Auth /\ o \in Auth /\ AuthFrom(n, a, o)
            /\ a.basic = g.pacBasic /\ a.user = Trim(g.pacUser) /\ n = PacShown(new)
        BY <2>1, <2>2, <2>3
      <3> HIDE DEF a, n, o
      <3>2. n.basic = a.basic /\ n.user = a.user
        BY <3>1, AuthKept, ZenonT(30)
      <3> QED BY <3>1, <3>2
    <2>5. CASE f = "pacBasic"
      BY <1>3, <1>5, <1>10, <2>4, <2>5
    <2>6. CASE f = "pacUser"
      BY <1>3, <1>5, <1>10, <2>4, <2>6
    <2>7. CASE f = "pacPassword"
      BY <1>4, <1>5, <2>7
    <2> QED BY <2>5, <2>6, <2>7
  <1>11. ASSUME k.mode # "direct", NEW f \in {"corpOn", "suffixes", "poll"}, f \notin ed,
                f = "corpOn" \/ k.corpOn
         PROVE  k[f] = h[f]
    <2> DEFINE poll == IF Trim(g.poll) = "" THEN "30" ELSE Number(g.poll)
    <2>1. new.corp = CorpOf(g) /\ CorpOf(g) # Bad
      BY <1>1, <1>5, <1>11, ToConfigOf
    <2>2. CorpOf(g) = IF ~g.corpOn /\ Trim(g.suffixes) = "" THEN None
                      ELSE IF poll = Bad THEN Bad
                      ELSE [on |-> g.corpOn, suffixes |-> Trim(g.suffixes), poll |-> poll]
      BY DEF CorpOf
    <2>3. Trim(g.suffixes) = g.suffixes
      BY <1>6 DEF Trim
    <2>4. "poll" \notin ed => poll = h.poll
      <3>1. \A q \in Numeral : Trim(q) # ""
        BY DEF Trim, Numeral
      <3> QED BY <1>3, <1>4, <3>1, NumberOfNumeral
    <2> HIDE DEF poll
    <2>5. CASE CorpOf(g) = None
      <3>1. ~g.corpOn
        <4>1. CASE poll = Bad
          BY <2>1, <2>2, <2>5, <4>1
        <4>2. CASE poll # Bad
          <5>1. CorpOf(g) \in Corp \/ (~g.corpOn /\ Trim(g.suffixes) = "")
            <6>1. poll \in Numeral
              BY <1>6, <4>2, NumberOf, TextFacts DEF poll
            <6>2. [on |-> g.corpOn, suffixes |-> Trim(g.suffixes), poll |-> poll] \in Corp
              BY <1>6, <2>3, <6>1 DEF Corp
            <6> QED BY <2>2, <4>2, <6>2
          <5>2. None \notin Corp
            BY DEF SettingsAssumption
          <5> QED BY <2>5, <5>1, <5>2
        <4> QED BY <4>1, <4>2
      <3>2. CorpShown(new).on = FALSE
        BY <2>1, <2>5 DEF CorpShown
      <3>3. f = "corpOn" /\ k.corpOn = FALSE
        BY <1>5, <1>11, <3>2
      <3>4. g.corpOn = FALSE
        BY <1>6, <3>1
      <3> QED BY <1>3, <1>11, <3>3, <3>4
    <2>6. CASE CorpOf(g) # None
      <3>1. CorpShown(new) = [on |-> g.corpOn, suffixes |-> g.suffixes, poll |-> poll]
        <4>1. CorpShown(new) = CorpOf(g)
          BY <2>1, <2>6 DEF CorpShown
        <4>2. CorpOf(g) = [on |-> g.corpOn, suffixes |-> Trim(g.suffixes), poll |-> poll]
          BY <2>1, <2>2, <2>6
        <4> QED BY <2>3, <4>1, <4>2
      <3>2. /\ CorpShown(new).on = g.corpOn /\ CorpShown(new).suffixes = g.suffixes
            /\ CorpShown(new).poll = poll
        BY <3>1
      <3>3. k.corpOn = g.corpOn /\ k.suffixes = g.suffixes /\ k.poll = poll
        BY <1>5, <3>2
      <3> QED BY <1>3, <1>11, <2>4, <3>3
    <2> QED BY <2>5, <2>6
  <1>12. ASSUME NEW f \in Shown(k) \ ed
         PROVE  k[f] = h[f] \/ (f \in {"upUser", "pacUser"} /\ k[f] = Trim(h[f]))
    <2>1. \/ f \in {"listen", "mode", "level"}
          \/ f \in {"port", "upBasic", "upUser", "upPassword"} /\ k.mode = "upstream"
          \/ f \in {"pacBasic", "pacUser", "pacPassword"} /\ k.mode = "pac"
          \/ f = "corpOn" /\ k.mode # "direct"
          \/ f \in {"suffixes", "poll"} /\ k.mode # "direct" /\ k.corpOn
      BY ShownIs
    <2> QED BY <1>8, <1>9, <1>10, <1>11, <2>1
  <1> QED BY <1>7, <1>12 DEF OnlyEdits, h, k

\* A form that differs from the present config's in the fields ed only makes a
\* config that keeps the promises.
LEMMA PromiseKept ==
    ASSUME NEW g \in Form, NEW old \in Config, ToConfig(g) # Bad,
           NEW ed \in SUBSET DOMAIN Offered,
           \A f \in DOMAIN g \ ed : g[f] = FormOf(old)[f]
    PROVE  Promised(KeepSecrets(ToConfig(g), old), ed, old)
  <1>1. PICK new : new = KeepSecrets(ToConfig(g), old)
    OBVIOUS
  <1>2. OnlyEdits(new, ed, old)
    BY <1>1, EditsPromise
  <1>3. /\ KeepsPassword(SlotAuth(new, "upstream"), SlotAuth(old, "upstream"), "upstream", ed)
        /\ KeepsPassword(SlotAuth(new, "pac"), SlotAuth(old, "pac"), "pac", ed)
    BY <1>1, PasswordPromise
  <1>4. Promised(new, ed, old)
    BY <1>2, <1>3 DEF Promised, Slot
  <1> QED BY <1>1, <1>4

-----------------------------------------------------------------------------
(***************************************************************************)
(* The jobs after a step.                                                  *)
(***************************************************************************)
\* An open window is one of the windows.
LEMMA WindowsAre == TypeOK /\ window # 0 => window \in Windows
  BY DEF TypeOK, Windows, SettingsAssumption

\* A save starts the job of its window.
LEMMA SaveJobs ==
    ASSUME TypeOK, Save, ToConfig(form) # Bad
    PROVE  /\ job' \in [Windows -> Job]
           /\ job'[window] = [pc |-> "apply", cfg |-> ToConfig(form), edited |-> edited,
                              stale |-> overtaken]
           /\ \A w \in Windows : w # window => job'[w] = job[w]
           /\ ToConfig(form) \in Config
  <1> DEFINE j == [pc |-> "apply", cfg |-> ToConfig(form), edited |-> edited, stale |-> overtaken]
  <1>1. window \in Windows /\ job' = [job EXCEPT ![window] = j]
    BY WindowsAre DEF Save
  <1>2. ToConfig(form) \in Config
    BY ToConfigOf DEF TypeOK
  <1>3. j \in Job
    BY <1>2 DEF TypeOK, Job
  <1> HIDE DEF j
  <1>4. /\ job' \in [Windows -> Job] /\ job'[window] = j
        /\ \A w \in Windows : w # window => job'[w] = job[w]
    BY <1>1, <1>3 DEF TypeOK
  <1> QED BY <1>2, <1>4 DEF j

\* Control::apply changes the job of its window.
LEMMA ApplyJobs ==
    ASSUME TypeOK, NEW w \in Windows, NEW written \in BOOLEAN, Apply(w, written)
    PROVE  /\ job' \in [Windows -> Job]
           /\ job[w].cfg \in Config /\ job'[w].cfg = KeepSecrets(job[w].cfg, config)
           /\ job'[w].cfg \in Config
           /\ job'[w].pc \in {"commit", "err"}
           /\ job'[w].pc = "commit" => Valid(job'[w].cfg)
           /\ job'[w].edited = job[w].edited /\ job'[w].stale = job[w].stale
           /\ \A v \in Windows : v # w => job'[v] = job[v]
  <1> DEFINE cfg == KeepSecrets(job[w].cfg, config)
             pc == IF Valid(cfg) /\ written THEN "commit" ELSE "err"
             mid == [job EXCEPT ![w].cfg = cfg]
  <1>1. job[w].cfg \in Config /\ cfg \in Config
    BY KeepSecretsIs DEF TypeOK, Apply
  <1>2. job' = [mid EXCEPT ![w].pc = pc]
    BY DEF Apply
  <1>3. pc \in {"commit", "err"} /\ (pc = "commit" => Valid(cfg))
    OBVIOUS
  <1> HIDE DEF cfg, pc
  <1>4. /\ mid \in [Windows -> Job]
        /\ mid[w].cfg = cfg /\ mid[w].edited = job[w].edited /\ mid[w].stale = job[w].stale
        /\ \A v \in Windows : v # w => mid[v] = job[v]
    BY <1>1 DEF TypeOK, Job
  <1> HIDE DEF mid
  <1>5. /\ job' \in [Windows -> Job]
        /\ job'[w].pc = pc /\ job'[w].cfg = mid[w].cfg
        /\ job'[w].edited = mid[w].edited /\ job'[w].stale = mid[w].stale
        /\ \A v \in Windows : v # w => job'[v] = mid[v]
    BY <1>2, <1>3, <1>4 DEF Job
  <1>6. /\ job' \in [Windows -> Job]
        /\ job'[w].pc = pc /\ job'[w].cfg = cfg
        /\ job'[w].edited = job[w].edited /\ job'[w].stale = job[w].stale
        /\ \A v \in Windows : v # w => job'[v] = job[v]
    BY <1>4, <1>5
  <1> QED BY <1>1, <1>3, <1>6 DEF cfg

\* A commit ends its job and makes the others stale.
LEMMA CommitJobs ==
    ASSUME TypeOK, NEW w \in Windows, Commit(w)
    PROVE  /\ job' \in [Windows -> Job]
           /\ job[w].cfg \in Config /\ job'[w].pc = "ok"
           /\ \A v \in Windows : /\ job'[v].cfg = job[v].cfg /\ job'[v].edited = job[v].edited
                                 /\ v # w => job'[v].pc = job[v].pc /\ job'[v].stale
  <1>1. job[w].cfg \in Config
    BY DEF TypeOK, Commit
  <1>2. job' = [v \in Windows |-> [job[v] EXCEPT !.pc = IF v = w THEN "ok" ELSE @,
                                                 !.stale = @ \/ v # w]]
    BY DEF Commit
  <1>3. ASSUME NEW v \in Windows
        PROVE  /\ job'[v] \in Job
               /\ job'[v].cfg = job[v].cfg /\ job'[v].edited = job[v].edited
               /\ job'[v].pc = IF v = w THEN "ok" ELSE job[v].pc
               /\ v # w => job'[v].stale
    <2> DEFINE pc == IF v = w THEN "ok" ELSE job[v].pc
               stale == job[v].stale \/ v # w
               j == job[v]
               mid == [j EXCEPT !.pc = pc]
    <2>1. job'[v] = [mid EXCEPT !.stale = stale]
      BY <1>2
    <2>2. j \in Job /\ pc \in {"idle", "apply", "commit", "ok", "err"} /\ stale \in BOOLEAN
      BY DEF TypeOK, Job
    <2>3. v # w => stale
      OBVIOUS
    <2> HIDE DEF pc, stale, j
    <2>4. mid \in Job /\ mid.pc = pc /\ mid.cfg = j.cfg /\ mid.edited = j.edited
      BY <2>2 DEF Job
    <2> HIDE DEF mid
    <2>5. /\ job'[v] \in Job /\ job'[v].pc = pc
          /\ job'[v].cfg = j.cfg /\ job'[v].edited = j.edited /\ job'[v].stale = stale
      BY <2>1, <2>2, <2>4 DEF Job
    <2> QED BY <2>3, <2>5 DEF pc, j
  <1>4. job' \in [Windows -> Job]
    BY <1>2, <1>3
  <1> QED BY <1>1, <1>3, <1>4

\* The result of a job frees its window.
LEMMA FinishJobs ==
    ASSUME TypeOK, NEW w \in Windows, Finish(w)
    PROVE  /\ job' \in [Windows -> Job]
           /\ job'[w].pc = "idle"
           /\ \A v \in Windows : v # w => job'[v] = job[v]
  <1>1. Idle \in Job /\ Idle.pc = "idle"
    BY DEF Idle, Job
  <1> QED BY <1>1 DEF Finish, TypeOK

-----------------------------------------------------------------------------
\* The form that rests without a window.
LEMMA BlankIs ==
    /\ Blank \in Form
    /\ Blank.listen = "7" /\ Blank.mode = "direct" /\ Blank.port = ""
    /\ Blank.upBasic = FALSE /\ Blank.upUser = "" /\ Blank.upPassword = ""
    /\ Blank.pacBasic = FALSE /\ Blank.pacUser = "" /\ Blank.pacPassword = ""
    /\ Blank.corpOn = FALSE /\ Blank.suffixes = "" /\ Blank.poll = "30"
  <1>1. PICK cfg : cfg = [listen |-> "7", mode |-> "direct", upstream |-> None, pac |-> None,
                          corp |-> None, pool |-> "custom", level |-> "info"]
    OBVIOUS
  <1>2. /\ cfg \in Config /\ cfg.listen = "7" /\ cfg.mode = "direct"
        /\ cfg.upstream = None /\ cfg.pac = None /\ cfg.corp = None
    BY <1>1 DEF Config, Numeral, Mode, Text
  <1>3. /\ UpstreamShown(cfg).port = "0" /\ UpstreamShown(cfg).auth = NoAuth
        /\ PacShown(cfg) = NoAuth
    BY <1>2 DEF UpstreamShown, PacShown
  <1>4. NoAuth.basic = FALSE /\ NoAuth.user = "" /\ PortText("0") = ""
    BY DEF NoAuth, PortText
  <1>5. Blank = FormOf(cfg)
    BY <1>1 DEF Blank
  <1>6. CorpShown(cfg).on = FALSE /\ CorpShown(cfg).suffixes = "" /\ CorpShown(cfg).poll = "30"
    BY <1>2 DEF CorpShown
  <1>7. /\ FormOf(cfg) \in Form
        /\ FormOf(cfg).listen = cfg.listen /\ FormOf(cfg).mode = cfg.mode
        /\ FormOf(cfg).port = PortText(UpstreamShown(cfg).port)
        /\ FormOf(cfg).upBasic = UpstreamShown(cfg).auth.basic
        /\ FormOf(cfg).upUser = UpstreamShown(cfg).auth.user
        /\ FormOf(cfg).upPassword = ""
        /\ FormOf(cfg).pacBasic = PacShown(cfg).basic
        /\ FormOf(cfg).pacUser = PacShown(cfg).user
        /\ FormOf(cfg).pacPassword = ""
        /\ FormOf(cfg).corpOn = CorpShown(cfg).on
        /\ FormOf(cfg).suffixes = CorpShown(cfg).suffixes
        /\ FormOf(cfg).poll = CorpShown(cfg).poll
    BY <1>2, FormOfConfig
  <1> QED BY <1>2, <1>3, <1>4, <1>5, <1>6, <1>7

\* A config the program may start with is a config.
LEMMA StartIs ==
    ASSUME NEW cfg \in Start
    PROVE  cfg \in Config /\ Valid(cfg)
  <1>1. /\ cfg \in [listen : {"7"}, mode : Mode,
                    upstream : {None} \cup [port : {"7"}, auth :
                        {[basic |-> TRUE, user |-> u, password |-> "p"] : u \in {"u", " u"}}],
                    pac : {None} \cup [auth : {[basic |-> TRUE, user |-> "v", password |-> "p"]}],
                    corp : {[on |-> TRUE, suffixes |-> "s", poll |-> "9"]},
                    pool : {"custom"}, level : {"hand"}]
        /\ Valid(cfg)
    BY DEF Start
  <1>2. \A u \in {"u", " u", "v"} : [basic |-> TRUE, user |-> u, password |-> "p"] \in Auth
    BY DEF Auth, Text
  <1>3. {[basic |-> TRUE, user |-> u, password |-> "p"] : u \in {"u", " u"}} \subseteq Auth
    BY <1>2
  <1>4. [basic |-> TRUE, user |-> "v", password |-> "p"] \in Auth
    BY <1>2
  <1>5. [on |-> TRUE, suffixes |-> "s", poll |-> "9"] \in Corp
    BY DEF Corp, Numeral
  <1>6. PICK A, a, c : /\ A = {[basic |-> TRUE, user |-> u, password |-> "p"] : u \in {"u", " u"}}
                       /\ a = [basic |-> TRUE, user |-> "v", password |-> "p"]
                       /\ c = [on |-> TRUE, suffixes |-> "s", poll |-> "9"]
    OBVIOUS
  <1>7. cfg \in [listen : {"7"}, mode : Mode, upstream : {None} \cup [port : {"7"}, auth : A],
                 pac : {None} \cup [auth : {a}], corp : {c}, pool : {"custom"}, level : {"hand"}]
    BY <1>1, <1>6
  <1>8. A \subseteq Auth /\ a \in Auth /\ c \in Corp
    BY <1>3, <1>4, <1>5, <1>6
  <1>9. "7" \in Numeral /\ "custom" \in Text /\ "hand" \in Text
    BY DEF Numeral, Text
  <1>10. /\ [port : {"7"}, auth : A] \subseteq Upstream
         /\ [auth : {a}] \subseteq Pac
    BY <1>8, <1>9 DEF Upstream, Pac
  <1>11. cfg \in Config
    BY <1>7, <1>8, <1>9, <1>10 DEF Config
  <1> QED BY <1>1, <1>11

\* No window is open and no save is running.
LEMMA Initially == Init => IInv
  <1> SUFFICES ASSUME Init PROVE IInv
    OBVIOUS
  <1>1. config \in Config /\ Valid(config)
    BY StartIs DEF Init
  <1>2. Idle \in Job /\ Idle.pc = "idle"
    BY DEF Idle, Job
  <1>3. job \in [Windows -> Job] /\ \A w \in Windows : job[w].pc = "idle"
    BY <1>2 DEF Init
  <1>4. TypeOK
    <2>1. opens = 0 /\ window = 0 /\ edited = {} /\ opens \in 0..MaxWindows /\ window \in 0..opens
      BY DEF Init, SettingsAssumption
    <2>2. form \in Form /\ saved \in Form
      BY BlankIs DEF Init
    <2>3. saving = FALSE /\ overtaken = FALSE /\ outcome = None
      BY DEF Init
    <2> QED BY <1>1, <1>3, <2>1, <2>2, <2>3 DEF TypeOK
  <1>5. Checked /\ Jobs /\ Current /\ Promises
    BY <1>1, <1>3 DEF Checked, Jobs, Current, Promises, Init
  <1>6. Edited
    BY DEF Edited, Init
  <1> QED BY <1>4, <1>5, <1>6 DEF IInv

\* What the page shows after it is loaded.
LEMMA Loaded ==
    ASSUME TypeOK, Load, config' = config
    PROVE  /\ form' \in Form /\ saved' \in Form /\ form' = saved' /\ saved' = FormOf(config')
           /\ edited' = {} /\ overtaken' \in BOOLEAN
           /\ ~overtaken' => \A w \in Windows : ~Running(w)
  BY FormOfConfig DEF TypeOK, Load

\* An edit leaves a form a form.
LEMMA Typed ==
    ASSUME TypeOK, NEW field \in DOMAIN Offered, NEW value \in Offered[field],
           form' = [form EXCEPT ![field] = value]
    PROVE  form' \in Form
  <1>1. form \in Form
    BY DEF TypeOK
  <1>2. CASE field = "listen"
    <2>1. value \in Text
      BY <1>2 DEF Offered, Text, Numeral
    <2> QED BY <1>1, <1>2, <2>1 DEF Form
  <1>3. CASE field = "mode"
    <2>1. value \in Mode
      BY <1>3 DEF Offered
    <2> QED BY <1>1, <1>3, <2>1 DEF Form
  <1>4. CASE field = "port"
    <2>1. value \in Text
      BY <1>4 DEF Offered, Text, Numeral
    <2> QED BY <1>1, <1>4, <2>1 DEF Form
  <1>5. CASE field = "upBasic"
    <2>1. value \in BOOLEAN
      BY <1>5 DEF Offered
    <2> QED BY <1>1, <1>5, <2>1 DEF Form
  <1>6. CASE field = "upUser"
    <2>1. value \in Text
      BY <1>6 DEF Offered, Text
    <2> QED BY <1>1, <1>6, <2>1 DEF Form
  <1>7. CASE field = "upPassword"
    <2>1. value \in Text
      BY <1>7 DEF Offered, Text
    <2> QED BY <1>1, <1>7, <2>1 DEF Form
  <1>8. CASE field = "pacBasic"
    <2>1. value \in BOOLEAN
      BY <1>8 DEF Offered
    <2> QED BY <1>1, <1>8, <2>1 DEF Form
  <1>9. CASE field = "pacUser"
    <2>1. value \in Text
      BY <1>9 DEF Offered, Text
    <2> QED BY <1>1, <1>9, <2>1 DEF Form
  <1>10. CASE field = "pacPassword"
    <2>1. value \in Text
      BY <1>10 DEF Offered, Text
    <2> QED BY <1>1, <1>10, <2>1 DEF Form
  <1>11. CASE field = "corpOn"
    <2>1. value \in BOOLEAN
      BY <1>11 DEF Offered
    <2> QED BY <1>1, <1>11, <2>1 DEF Form
  <1>12. CASE field = "suffixes"
    <2>1. value \in {"", "s"}
      BY <1>12 DEF Offered
    <2> QED BY <1>1, <1>12, <2>1 DEF Form
  <1>13. CASE field = "poll"
    <2>1. value \in Text
      BY <1>13 DEF Offered, Text, Numeral
    <2> QED BY <1>1, <1>13, <2>1 DEF Form
  <1>14. CASE field = "level"
    <2>1. value \in Text
      BY <1>14 DEF Offered, Text
    <2> QED BY <1>1, <1>14, <2>1 DEF Form
  <1>15. field \in {"listen", "mode", "port", "upBasic", "upUser", "upPassword", "pacBasic",
                   "pacUser", "pacPassword", "corpOn", "suffixes", "poll", "level"}
    BY DEF Offered
  <1> QED BY <1>2, <1>3, <1>4, <1>5, <1>6, <1>7, <1>8, <1>9, <1>10, <1>11, <1>12, <1>13, <1>14,
             <1>15

-----------------------------------------------------------------------------
(***************************************************************************)
(* The steps of the user.                                                  *)
(***************************************************************************)
\* A new window shows what runs, and has no save of its own.
LEMMA OpenStep == IInv /\ Open => IInv'
  <1> SUFFICES ASSUME IInv, Open PROVE IInv'
    OBVIOUS
  <1> USE DEF IInv
  <1>1. /\ window' = opens + 1 /\ opens' = opens + 1 /\ opens < MaxWindows /\ opens \in Nat
        /\ Load /\ saving' = FALSE /\ outcome' = None
        /\ config' = config /\ job' = job
    BY DEF Open, TypeOK, SettingsAssumption
  <1>2. /\ form' \in Form /\ saved' \in Form /\ form' = saved' /\ saved' = FormOf(config')
        /\ edited' = {} /\ overtaken' \in BOOLEAN
        /\ ~overtaken' => \A w \in Windows : ~Running(w)
    BY <1>1, Loaded
  <1>3. TypeOK'
    <2>1. opens' \in 0..MaxWindows /\ window' \in 0..opens'
      BY <1>1 DEF SettingsAssumption
    <2> QED BY <1>1, <1>2, <2>1 DEF TypeOK
  <1>4. Checked' /\ Promises'
    BY <1>1 DEF Checked, Promises
  <1>5. Jobs'
    <2>1. \A w \in Windows : w > opens' => job'[w].pc = "idle"
      BY <1>1 DEF Jobs, Windows, SettingsAssumption
    <2>2. window' \in Windows /\ window' > opens
      BY <1>1 DEF Windows, SettingsAssumption
    <2>3. job'[window'].pc = "idle"
      BY <1>1, <2>2 DEF Jobs
    <2> QED BY <1>1, <1>2, <2>1, <2>3 DEF Jobs, Running
  <1>6. Edited' /\ Current'
    BY <1>2 DEF Edited, Current
  <1> QED BY <1>3, <1>4, <1>5, <1>6

\* Without a window there is nothing to be behind.
LEMMA CloseStep == IInv /\ Close => IInv'
  <1> SUFFICES ASSUME IInv, Close PROVE IInv'
    OBVIOUS
  <1> USE DEF IInv
  <1>1. /\ window' = 0 /\ form' = Blank /\ saved' = Blank
        /\ saving' = FALSE /\ outcome' = None /\ edited' = {} /\ overtaken' = FALSE
        /\ config' = config /\ opens' = opens /\ job' = job
    BY DEF Close, NoView
  <1>2. TypeOK'
    <2>1. opens' \in 0..MaxWindows /\ window' \in 0..opens'
      BY <1>1 DEF TypeOK, SettingsAssumption
    <2>2. Blank' = Blank
      BY DEF Blank
    <2> QED BY <1>1, <2>1, BlankIs DEF TypeOK
  <1>3. Checked' /\ Promises' /\ Jobs' /\ Current'
    BY <1>1 DEF Checked, Promises, Jobs, Current, Running
  <1>4. Edited'
    BY <1>1 DEF Edited
  <1> QED BY <1>2, <1>3, <1>4

\* The form is loaded again, with no save of its own running.
LEMMA DiscardStep == IInv /\ Discard => IInv'
  <1> SUFFICES ASSUME IInv, Discard PROVE IInv'
    OBVIOUS
  <1> USE DEF IInv
  <1>1. /\ window' = window /\ opens' = opens /\ saving' = saving /\ outcome' = None
        /\ config' = config /\ job' = job /\ Load
    BY DEF Discard
  <1>2. /\ form' \in Form /\ saved' \in Form /\ form' = saved' /\ saved' = FormOf(config')
        /\ edited' = {} /\ overtaken' \in BOOLEAN
        /\ ~overtaken' => \A w \in Windows : ~Running(w)
    BY <1>1, Loaded
  <1>3. TypeOK'
    BY <1>1, <1>2 DEF TypeOK
  <1>4. Checked' /\ Promises'
    BY <1>1 DEF Checked, Promises
  <1>5. Jobs'
    BY <1>1, <1>2 DEF Jobs, Running
  <1>6. Edited' /\ Current'
    BY <1>2 DEF Edited, Current
  <1> QED BY <1>3, <1>4, <1>5, <1>6

\* An edited field may differ from what was loaded.
LEMMA EditStep ==
    ASSUME IInv, NEW field \in DOMAIN Offered, NEW value \in Offered[field], Edit(field, value)
    PROVE  IInv'
  <1> USE DEF IInv
  <1>1. /\ form' = [form EXCEPT ![field] = value] /\ edited' = edited \cup {field}
        /\ config' = config /\ window' = window /\ opens' = opens /\ saved' = saved
        /\ saving' = saving /\ outcome' = outcome /\ overtaken' = overtaken /\ job' = job
    BY DEF Edit
  <1>2. TypeOK'
    <2>1. form' \in Form
      BY <1>1, Typed
    <2>2. edited' \subseteq DOMAIN Offered
      BY <1>1 DEF TypeOK
    <2> QED BY <1>1, <2>1, <2>2 DEF TypeOK
  <1>3. Checked' /\ Promises' /\ Jobs'
    BY <1>1 DEF Checked, Promises, Jobs, Running
  <1>4. Edited'
    BY <1>1 DEF Edited
  <1>5. Current'
    <2>1. edited' # {}
      BY <1>1
    <2> QED BY <1>1, <2>1 DEF Current
  <1> QED BY <1>2, <1>3, <1>4, <1>5

\* A form that is not behind is saved as the promise says.
LEMMA SaveStep == IInv /\ Save => IInv'
  <1> SUFFICES ASSUME IInv, Save PROVE IInv'
    OBVIOUS
  <1> USE DEF IInv
  <1>1. /\ window # 0 /\ ~saving
        /\ config' = config /\ window' = window /\ opens' = opens /\ form' = form
        /\ saved' = saved /\ edited' = edited /\ overtaken' = overtaken
    BY DEF Save
  <1>2. Edited'
    BY <1>1 DEF Edited
  <1>3. window \in Windows /\ ~(window > opens)
    BY <1>1, WindowsAre DEF TypeOK, SettingsAssumption
  <1>4. CASE ToConfig(form) = Bad
    <2>1. outcome' = "failed" /\ saving' = saving /\ job' = job
      BY <1>4 DEF Save
    <2>2. TypeOK'
      BY <1>1, <2>1 DEF TypeOK
    <2>3. Checked' /\ Promises' /\ Jobs' /\ Current'
      BY <1>1, <2>1 DEF Checked, Promises, Jobs, Current, Running
    <2> QED BY <1>2, <2>2, <2>3
  <1>5. CASE ToConfig(form) # Bad
    <2>1. /\ job' \in [Windows -> Job]
          /\ job'[window] = [pc |-> "apply", cfg |-> ToConfig(form), edited |-> edited,
                             stale |-> overtaken]
          /\ \A w \in Windows : w # window => job'[w] = job[w]
          /\ ToConfig(form) \in Config
      BY <1>5, SaveJobs
    <2>2. outcome' = None /\ saving' = TRUE
      BY <1>5 DEF Save
    <2>3. /\ job'[window].pc = "apply" /\ job'[window].cfg = ToConfig(form)
          /\ job'[window].edited = edited /\ job'[window].stale = overtaken
      BY <2>1
    <2>4. TypeOK'
      BY <1>1, <2>1, <2>2, <2>3 DEF TypeOK
    <2>5. Checked'
      BY <1>1, <2>1, <2>3 DEF Checked
    <2>6. Jobs'
      BY <1>1, <1>3, <2>1, <2>2, <2>3 DEF Jobs, Running
    <2>7. Current'
      BY <1>1, <2>2, <2>3, TextFacts DEF Current, Jobs
    <2>8. Promises'
      <3>1. ASSUME ~overtaken
            PROVE  Promised(KeepSecrets(ToConfig(form), config), edited, config)
        <4>1. saved = FormOf(config)
          BY <1>1, <3>1 DEF Current, Jobs
        <4>2. \A f \in DOMAIN form \ edited : form[f] = FormOf(config)[f]
          BY <4>1 DEF Edited
        <4>3. form \in Form /\ config \in Config /\ edited \in SUBSET DOMAIN Offered
          BY DEF TypeOK
        <4> QED BY <1>5, <4>2, <4>3, PromiseKept
      <3>2. ASSUME NEW w \in Windows, ~job'[w].stale
            PROVE  /\ job'[w].pc = "apply" =>
                        Promised(KeepSecrets(job'[w].cfg, config'), job'[w].edited, config')
                   /\ job'[w].pc = "commit" => Promised(job'[w].cfg, job'[w].edited, config')
        <4>1. CASE w = window
          BY <1>1, <2>3, <3>1, <3>2, <4>1
        <4>2. CASE w # window
          BY <1>1, <2>1, <3>2, <4>2 DEF Promises
        <4> QED BY <4>1, <4>2
      <3> QED BY <3>2 DEF Promises
    <2> QED BY <1>2, <2>4, <2>5, <2>6, <2>7, <2>8
  <1> QED BY <1>4, <1>5

-----------------------------------------------------------------------------
(***************************************************************************)
(* The steps in the background.                                            *)
(***************************************************************************)
\* What is promised of the merged config is promised of the job's.
LEMMA ApplyStep ==
    ASSUME IInv, NEW w \in Windows, NEW written \in BOOLEAN, Apply(w, written)
    PROVE  IInv'
  <1> USE DEF IInv
  <1>1. /\ config' = config /\ window' = window /\ opens' = opens /\ form' = form
        /\ saved' = saved /\ saving' = saving /\ outcome' = outcome /\ edited' = edited
        /\ overtaken' = overtaken /\ job[w].pc = "apply"
    BY DEF Apply, viewVars
  <1>2. /\ job' \in [Windows -> Job]
        /\ job[w].cfg \in Config /\ job'[w].cfg = KeepSecrets(job[w].cfg, config)
        /\ job'[w].cfg \in Config
        /\ job'[w].pc \in {"commit", "err"}
        /\ job'[w].pc = "commit" => Valid(job'[w].cfg)
        /\ job'[w].edited = job[w].edited /\ job'[w].stale = job[w].stale
        /\ \A v \in Windows : v # w => job'[v] = job[v]
    BY ApplyJobs
  <1>3. TypeOK'
    BY <1>1, <1>2 DEF TypeOK
  <1>4. Checked'
    BY <1>1, <1>2 DEF Checked
  <1>5. Jobs'
    BY <1>1, <1>2, WindowsAre DEF Jobs, Running
  <1>6. Edited'
    BY <1>1 DEF Edited
  <1>7. Current'
    <2>1. window # 0 /\ job'[window].pc # "ok" => job[window].pc # "ok"
      BY <1>1, <1>2, WindowsAre
    <2> QED BY <1>1, <2>1 DEF Current
  <1>8. Promises'
    <2>1. ASSUME NEW v \in Windows, ~job'[v].stale
          PROVE  /\ job'[v].pc = "apply" =>
                      Promised(KeepSecrets(job'[v].cfg, config'), job'[v].edited, config')
                 /\ job'[v].pc = "commit" => Promised(job'[v].cfg, job'[v].edited, config')
      <3>1. CASE v = w
        BY <1>1, <1>2, <2>1, <3>1 DEF Promises
      <3>2. CASE v # w
        BY <1>1, <1>2, <2>1, <3>2 DEF Promises
      <3> QED BY <3>1, <3>2
    <2> QED BY <2>1 DEF Promises
  <1> QED BY <1>3, <1>4, <1>5, <1>6, <1>7, <1>8

\* The config changes; the saves that are still running become stale.
LEMMA CommitStep ==
    ASSUME IInv, NEW w \in Windows, Commit(w)
    PROVE  IInv'
  <1> USE DEF IInv
  <1>1. /\ config' = job[w].cfg /\ window' = window /\ opens' = opens /\ form' = form
        /\ saved' = saved /\ saving' = saving /\ outcome' = outcome /\ edited' = edited
        /\ overtaken' = overtaken /\ job[w].pc = "commit"
    BY DEF Commit, viewVars
  <1>2. /\ job' \in [Windows -> Job]
        /\ job[w].cfg \in Config /\ job'[w].pc = "ok"
        /\ \A v \in Windows : /\ job'[v].cfg = job[v].cfg /\ job'[v].edited = job[v].edited
                              /\ v # w => job'[v].pc = job[v].pc /\ job'[v].stale
    BY CommitJobs
  <1>3. TypeOK'
    BY <1>1, <1>2 DEF TypeOK
  <1>4. Checked'
    BY <1>1, <1>2 DEF Checked
  <1>5. Jobs'
    BY <1>1, <1>2, WindowsAre DEF Jobs, Running
  <1>6. Edited'
    BY <1>1 DEF Edited
  <1>7. Current'
    <2>1. window # 0 /\ ~overtaken => window = w
      BY <1>1 DEF Jobs, Running
    <2> QED BY <1>1, <1>2, <2>1 DEF Current
  <1>8. Promises'
    BY <1>1, <1>2 DEF Promises
  <1> QED BY <1>3, <1>4, <1>5, <1>6, <1>7, <1>8

\* The window loads what was applied, or keeps its form if nothing was.
LEMMA FinishStep ==
    ASSUME IInv, NEW w \in Windows, Finish(w)
    PROVE  IInv'
  <1> USE DEF IInv
  <1>1. /\ config' = config /\ window' = window /\ opens' = opens
        /\ job[w].pc \in {"ok", "err"}
    BY DEF Finish
  <1>2. /\ job' \in [Windows -> Job]
        /\ job'[w].pc = "idle"
        /\ \A v \in Windows : v # w => job'[v] = job[v]
    BY FinishJobs
  <1>3. Checked' /\ Promises'
    BY <1>1, <1>2 DEF Checked, Promises
  <1>4. CASE w = window /\ job[w].pc = "ok"
    <2>1. saving' = FALSE /\ outcome' = "saved" /\ Load
      BY <1>4 DEF Finish, AfterSave
    <2>2. /\ form' \in Form /\ saved' \in Form /\ form' = saved' /\ saved' = FormOf(config')
          /\ edited' = {} /\ overtaken' \in BOOLEAN
          /\ ~overtaken' => \A v \in Windows : ~Running(v)
      BY <1>1, <2>1, Loaded
    <2>3. TypeOK'
      BY <1>1, <1>2, <2>1, <2>2 DEF TypeOK
    <2>4. Jobs'
      BY <1>1, <1>2, <1>4, <2>1, <2>2 DEF Jobs, Running
    <2>5. Edited' /\ Current'
      BY <2>2 DEF Edited, Current
    <2> QED BY <1>3, <2>3, <2>4, <2>5
  <1>5. CASE w = window /\ job[w].pc # "ok"
    <2>1. /\ saving' = FALSE /\ outcome' = "failed" /\ form' = form /\ saved' = saved
          /\ edited' = edited /\ overtaken' = overtaken
      BY <1>5 DEF Finish
    <2>2. TypeOK'
      BY <1>1, <1>2, <2>1 DEF TypeOK
    <2>3. Jobs'
      BY <1>1, <1>2, <1>5, <2>1 DEF Jobs, Running
    <2>4. Edited' /\ Current'
      BY <1>1, <1>5, <2>1 DEF Edited, Current
    <2> QED BY <1>3, <2>2, <2>3, <2>4
  <1>6. CASE w # window
    <2>1. /\ saving' = saving /\ outcome' = outcome /\ form' = form /\ saved' = saved
          /\ edited' = edited /\ overtaken' = overtaken
      BY <1>6 DEF Finish
    <2>2. TypeOK'
      BY <1>1, <1>2, <2>1 DEF TypeOK
    <2>3. Jobs'
      BY <1>1, <1>2, <1>6, <2>1, WindowsAre DEF Jobs, Running
    <2>4. window # 0 => job'[window] = job[window]
      BY <1>2, <1>6, WindowsAre
    <2>5. Edited' /\ Current'
      BY <1>1, <2>1, <2>4 DEF Edited, Current
    <2> QED BY <1>3, <2>2, <2>3, <2>5
  <1> QED BY <1>4, <1>5, <1>6

\* The invariant is inductive.
LEMMA Steps == IInv /\ [Next]_vars => IInv'
  <1> SUFFICES ASSUME IInv, [Next]_vars PROVE IInv'
    OBVIOUS
  <1>1. CASE User
    <2>1. ASSUME NEW field \in DOMAIN Offered, NEW value \in Offered[field], Edit(field, value)
          PROVE  IInv'
      BY <2>1, EditStep
    <2> QED BY <1>1, <2>1, OpenStep, CloseStep, DiscardStep, SaveStep DEF User
  <1>2. CASE Background
    <2>1. ASSUME NEW w \in Windows, NEW written \in BOOLEAN, Apply(w, written)
          PROVE  IInv'
      BY <2>1, ApplyStep
    <2>2. ASSUME NEW w \in Windows, Commit(w)
          PROVE  IInv'
      BY <2>2, CommitStep
    <2>3. ASSUME NEW w \in Windows, Finish(w)
          PROVE  IInv'
      BY <2>3, FinishStep
    <2> QED BY <1>2, <2>1, <2>2, <2>3 DEF Background
  <1>3. CASE UNCHANGED vars
    <2> USE DEF vars, viewVars
    <2>1. TypeOK' /\ Checked'
      BY <1>3 DEF IInv, TypeOK, Checked
    <2>2. Jobs' /\ Edited' /\ Current' /\ Promises'
      BY <1>3 DEF IInv, Jobs, Running, Edited, Current, Promises
    <2> QED BY <2>1, <2>2 DEF IInv
  <1> QED BY <1>1, <1>2, <1>3 DEF Next

\* The settings page: the invariant of every run.
THEOREM Invariance == Spec => []IInv
  BY Initially, Steps, PTL DEF Spec

\* After "Saved and applied." the form shows what the proxy is running with,
\* whatever the saves, edits, failures and windows in between.
THEOREM SavedIsRunningHolds == Spec => []SavedIsRunning
  <1>1. IInv => SavedIsRunning
    <2> SUFFICES ASSUME IInv PROVE SavedIsRunning
      OBVIOUS
    <2>1. \A w \in Windows : job[w].pc \in {"idle", "apply", "commit", "ok", "err"}
      BY DEF IInv, TypeOK, Job
    <2>2. /\ outcome \in {None, "saved", "failed"} /\ window \in 0..opens
          /\ opens \in 0..MaxWindows
      BY DEF IInv, TypeOK
    <2> QED BY <2>1, <2>2 DEF IInv, Checked, Current, SavedIsRunning
  <1> QED BY <1>1, Invariance, PTL

\* A step that applies a save commits it.
LEMMA AppliedIs ==
    ASSUME IInv, [Next]_vars, NEW w \in Windows, Applied(w)
    PROVE  config' = job[w].cfg /\ Promised(job[w].cfg, job[w].edited, config)
  <1>1. job[w].pc = "commit" /\ job'[w].pc = "ok" /\ ~job[w].stale
    BY DEF Applied
  <1>2. Promised(job[w].cfg, job[w].edited, config)
    BY <1>1 DEF IInv, Promises
  <1>3. job' # job
    BY <1>1
  <1>4. ASSUME \/ Open \/ Close \/ Discard
               \/ \E field \in DOMAIN Offered : \E value \in Offered[field] : Edit(field, value)
        PROVE  FALSE
    BY <1>3, <1>4 DEF Open, Close, Discard, Edit
  <1>5. CASE Save
    <2>1. CASE ToConfig(form) = Bad
      BY <1>3, <1>5, <2>1 DEF Save
    <2>2. CASE ToConfig(form) # Bad
      <3>1. /\ job'[window].pc = "apply"
            /\ \A v \in Windows : v # window => job'[v] = job[v]
        BY <1>5, <2>2, SaveJobs DEF IInv
      <3> QED BY <1>1, <3>1
    <2> QED BY <2>1, <2>2
  <1>6. ASSUME NEW v \in Windows, NEW written \in BOOLEAN, Apply(v, written)
        PROVE  FALSE
    <2>1. /\ job'[v].pc \in {"commit", "err"}
          /\ \A x \in Windows : x # v => job'[x] = job[x]
      BY <1>6, ApplyJobs DEF IInv
    <2> QED BY <1>1, <2>1
  <1>7. ASSUME NEW v \in Windows, Finish(v)
        PROVE  FALSE
    <2>1. /\ job'[v].pc = "idle"
          /\ \A x \in Windows : x # v => job'[x] = job[x]
      BY <1>7, FinishJobs DEF IInv
    <2> QED BY <1>1, <2>1
  <1>8. ASSUME NEW v \in Windows, Commit(v)
        PROVE  config' = job[w].cfg
    <2>1. \A x \in Windows : x # v => job'[x].pc = job[x].pc
      BY <1>8, CommitJobs DEF IInv
    <2>2. v = w
      BY <1>1, <2>1
    <2> QED BY <1>8, <2>2 DEF Commit
  <1>9. CASE UNCHANGED vars
    BY <1>3, <1>9 DEF vars
  <1>10. config' = job[w].cfg
    BY <1>4, <1>5, <1>6, <1>7, <1>8, <1>9 DEF Next, User, Background
  <1> QED BY <1>2, <1>10

\* A save that no other overtook changes what the user has edited and nothing
\* else that is on screen.
THEOREM OnlyEditsSavedHolds == Spec => OnlyEditsSaved
  <1>1. IInv /\ [Next]_vars =>
           [\A w \in Windows : Applied(w) => OnlyEdits(config', job[w].edited, config)]_vars
    <2> SUFFICES ASSUME IInv, [Next]_vars, NEW w \in Windows, Applied(w)
                 PROVE  OnlyEdits(config', job[w].edited, config)
      OBVIOUS
    <2> QED BY AppliedIs DEF Promised
  <1> QED BY <1>1, Invariance, PTL DEF Spec, OnlyEditsSaved

\* Such a save leaves the saved passwords with their users.
THEOREM PasswordKeptHolds == Spec => PasswordKept
  <1>1. IInv /\ [Next]_vars =>
           [\A w \in Windows : Applied(w) => \A slot \in Slot :
               KeepsPassword(SlotAuth(config', slot), SlotAuth(config, slot), slot,
                             job[w].edited)]_vars
    <2> SUFFICES ASSUME IInv, [Next]_vars, NEW w \in Windows, Applied(w), NEW slot \in Slot
                 PROVE  KeepsPassword(SlotAuth(config', slot), SlotAuth(config, slot), slot,
                                      job[w].edited)
      OBVIOUS
    <2> QED BY AppliedIs DEF Promised
  <1> QED BY <1>1, Invariance, PTL DEF Spec, PasswordKept

-----------------------------------------------------------------------------
\* A form whose shown sections parse makes a config.
LEMMA Parses ==
    ASSUME NEW f \in Form, Number(f.listen) # Bad,
           f.mode = "upstream" => UpstreamOf(f) # Bad,
           f.mode # "direct" => CorpOf(f) # Bad
    PROVE  ToConfig(f) # Bad
  <1> DEFINE li == Number(f.listen)
             up == IF f.mode = "upstream" THEN UpstreamOf(f) ELSE None
             pac == IF f.mode = "pac" THEN PacOf(f) ELSE None
             corp == IF f.mode = "direct" THEN None ELSE CorpOf(f)
             mo == f.mode
             pool == f.pool
             le == f.level
             cfg == [listen |-> li, mode |-> mo, upstream |-> up, pac |-> pac, corp |-> corp,
                     pool |-> pool, level |-> le]
  <1>1. f.listen \in Text /\ mo \in Mode /\ pool \in Text /\ le \in Text
    BY DEF Form
  <1>2. /\ "upstream" \in Sections(f) <=> f.mode = "upstream"
        /\ "pac" \in Sections(f) <=> f.mode = "pac"
        /\ "corp" \in Sections(f) <=> f.mode # "direct"
    BY <1>1 DEF Sections, Mode
  <1>3. ToConfig(f) = IF cfg.listen = Bad \/ cfg.upstream = Bad \/ cfg.corp = Bad
                      THEN Bad ELSE cfg
    BY <1>2 DEF ToConfig
  <1>4. /\ li \in Numeral /\ up \in Upstream \cup {None} /\ pac \in Pac \cup {None}
        /\ corp \in Corp \cup {None}
    BY <1>1, NumberOf, SectionsOf
  <1>5. li # Bad /\ up # Bad /\ corp # Bad
    BY SettingsAssumption
  <1> HIDE DEF li, up, pac, corp, mo, pool, le
  <1>6. cfg \in Config
    BY <1>1, <1>4 DEF Config
  <1>7. cfg.listen = li /\ cfg.upstream = up /\ cfg.corp = corp
    OBVIOUS
  <1> HIDE DEF cfg
  <1>8. ToConfig(f) = cfg
    BY <1>3, <1>5, <1>7
  <1> QED BY <1>6, <1>8 DEF SettingsAssumption

\* What is on screen stays, and the rest is as if it had never been filled in.
LEMMA OnScreenIs ==
    ASSUME NEW f \in Form
    PROVE  /\ OnScreen(f) \in Form
           /\ OnScreen(f).listen = f.listen /\ OnScreen(f).mode = f.mode
           /\ f.mode = "upstream" =>
                 OnScreen(f).port = f.port /\ OnScreen(f).upBasic = f.upBasic
           /\ f.mode = "upstream" /\ f.upBasic =>
                 OnScreen(f).upUser = f.upUser /\ OnScreen(f).upPassword = f.upPassword
           /\ f.mode = "pac" => OnScreen(f).pacBasic = f.pacBasic
           /\ f.mode = "pac" /\ f.pacBasic =>
                 OnScreen(f).pacUser = f.pacUser /\ OnScreen(f).pacPassword = f.pacPassword
           /\ f.mode # "direct" => OnScreen(f).corpOn = f.corpOn
           /\ f.mode # "direct" /\ f.corpOn =>
                 OnScreen(f).suffixes = f.suffixes /\ OnScreen(f).poll = f.poll
           /\ f.mode # "direct" /\ ~f.corpOn => OnScreen(f).suffixes = ""
  <1> DEFINE k == OnScreen(f)
  <1>1. DOMAIN f = {"listen", "mode", "port", "upBasic", "upUser", "upPassword", "pacBasic",
                    "pacUser", "pacPassword", "corpOn", "suffixes", "poll", "pool", "level"}
    BY DEF Form
  <1>2. k = [x \in DOMAIN f |-> IF x \in Shown(f) \cup {"pool"} THEN f[x] ELSE Blank[x]]
    BY DEF OnScreen
  <1>3. \A x \in DOMAIN f : k[x] = IF x \in Shown(f) \cup {"pool"} THEN f[x] ELSE Blank[x]
    BY <1>2
  <1>4. \A x \in DOMAIN f : k[x] = f[x] \/ k[x] = Blank[x]
    BY <1>3
  <1>5. DOMAIN k = DOMAIN f
    BY <1>2
  <1>6. /\ k.listen = f.listen \/ k.listen = Blank.listen
        /\ k.mode = f.mode \/ k.mode = Blank.mode
        /\ k.port = f.port \/ k.port = Blank.port
        /\ k.upBasic = f.upBasic \/ k.upBasic = Blank.upBasic
        /\ k.upUser = f.upUser \/ k.upUser = Blank.upUser
        /\ k.upPassword = f.upPassword \/ k.upPassword = Blank.upPassword
        /\ k.pacBasic = f.pacBasic \/ k.pacBasic = Blank.pacBasic
        /\ k.pacUser = f.pacUser \/ k.pacUser = Blank.pacUser
        /\ k.pacPassword = f.pacPassword \/ k.pacPassword = Blank.pacPassword
        /\ k.corpOn = f.corpOn \/ k.corpOn = Blank.corpOn
        /\ k.suffixes = f.suffixes \/ k.suffixes = Blank.suffixes
        /\ k.poll = f.poll \/ k.poll = Blank.poll
        /\ k.pool = f.pool \/ k.pool = Blank.pool
        /\ k.level = f.level \/ k.level = Blank.level
    BY <1>1, <1>4
  <1>7. k = [x \in DOMAIN k |-> k[x]]
    BY <1>2
  <1>8. Blank \in Form
    BY BlankIs
  <1>9. \A x \in DOMAIN f : x \in Shown(f) => k[x] = f[x]
    BY <1>3
  <1>10. /\ "listen" \in Shown(f) /\ "mode" \in Shown(f)
         /\ f.mode = "upstream" => "port" \in Shown(f) /\ "upBasic" \in Shown(f)
         /\ f.mode = "upstream" /\ f.upBasic => "upUser" \in Shown(f) /\ "upPassword" \in Shown(f)
         /\ f.mode = "pac" => "pacBasic" \in Shown(f)
         /\ f.mode = "pac" /\ f.pacBasic => "pacUser" \in Shown(f) /\ "pacPassword" \in Shown(f)
         /\ f.mode # "direct" => "corpOn" \in Shown(f)
         /\ f.mode # "direct" /\ f.corpOn => "suffixes" \in Shown(f) /\ "poll" \in Shown(f)
         /\ ~f.corpOn => "suffixes" \notin Shown(f)
    BY DEF Shown
  <1>11. ~f.corpOn => k.suffixes = ""
    BY <1>1, <1>3, <1>10, BlankIs
  <1> HIDE DEF k
  <1>12. k \in Form
    <2>1. /\ k.listen \in Text /\ k.mode \in Mode /\ k.port \in Text
          /\ k.upUser \in Text /\ k.upPassword \in Text
          /\ k.pacUser \in Text /\ k.pacPassword \in Text
          /\ k.suffixes \in {"", "s"} /\ k.poll \in Text /\ k.pool \in Text /\ k.level \in Text
      BY <1>6, <1>8, ZenonT(30) DEF Form
    <2>2. k.upBasic \in BOOLEAN /\ k.pacBasic \in BOOLEAN /\ k.corpOn \in BOOLEAN
      BY <1>6, <1>8 DEF Form
    <2> QED BY <1>1, <1>5, <1>7, <2>1, <2>2 DEF Form
  <1>13. k \in Form /\ k.listen = f.listen /\ k.mode = f.mode
    BY <1>1, <1>9, <1>10, <1>12
  <1> QED BY <1>1, <1>9, <1>10, <1>11, <1>13 DEF k

\* A form that is acceptable without what is not on screen is acceptable,
\* unless the hidden interval does not parse.
LEMMA NotBlocked ==
    ASSUME NEW f \in Form, ~Blocked(OnScreen(f)),
           f.corpOn \/ f.suffixes = "" \/ Number(f.poll) # Bad
    PROVE  ~Blocked(f)
  <1> DEFINE k == OnScreen(f)
             new == ToConfig(f)
             old == ToConfig(k)
  <1>1. k \in Form /\ old # Bad /\ Valid(old)
    BY OnScreenIs DEF Blocked
  <1>2. /\ k.listen = f.listen /\ k.mode = f.mode
        /\ f.mode = "upstream" => k.port = f.port /\ k.upBasic = f.upBasic
        /\ f.mode = "upstream" /\ f.upBasic => k.upUser = f.upUser /\ k.upPassword = f.upPassword
        /\ f.mode = "pac" => k.pacBasic = f.pacBasic
        /\ f.mode = "pac" /\ f.pacBasic => k.pacUser = f.pacUser /\ k.pacPassword = f.pacPassword
        /\ f.mode # "direct" => k.corpOn = f.corpOn
        /\ f.mode # "direct" /\ f.corpOn => k.suffixes = f.suffixes /\ k.poll = f.poll
        /\ f.mode # "direct" /\ ~f.corpOn => k.suffixes = ""
    BY OnScreenIs
  <1>3. /\ f.suffixes \in {"", "s"} /\ f.mode \in Mode /\ f.upBasic \in BOOLEAN
        /\ f.pacBasic \in BOOLEAN /\ f.corpOn \in BOOLEAN
    BY DEF Form
  <1> HIDE DEF k
  <1>4. /\ Number(k.listen) # Bad
        /\ k.mode = "upstream" => UpstreamOf(k) # Bad
        /\ k.mode # "direct" => CorpOf(k) # Bad
        /\ old.listen = Number(k.listen) /\ old.mode = k.mode
        /\ old.upstream = IF k.mode = "upstream" THEN UpstreamOf(k) ELSE None
        /\ old.pac = IF k.mode = "pac" THEN PacOf(k) ELSE None
        /\ old.corp = IF k.mode = "direct" THEN None ELSE CorpOf(k)
    BY <1>1, ToConfigOf
  <1>5. ASSUME f.mode = "upstream"
        PROVE  /\ UpstreamOf(f) # Bad /\ UpstreamOf(f) # None
               /\ UpstreamOf(f).port # "0" /\ AuthOk(UpstreamOf(f).auth)
    <2>1. /\ UpstreamOf(k) # Bad /\ old.upstream = UpstreamOf(k)
          /\ UpstreamOf(k) \in Upstream
      BY <1>1, <1>2, <1>4, <1>5, SectionsOf
    <2>2. UpstreamOf(k).port # "0" /\ AuthOk(UpstreamOf(k).auth)
      BY <1>1, <1>2, <1>4, <1>5, <2>1 DEF Valid
    <2>3. /\ UpstreamOf(k).port = Number(k.port) /\ Number(k.port) # Bad
          /\ UpstreamOf(k).auth = ToAuth(k.upBasic, k.upUser, k.upPassword)
      BY <1>1, <2>1, SectionsOf
    <2>4. k.port = f.port /\ k.upBasic = f.upBasic
      BY <1>2, <1>5
    <2>5. /\ UpstreamOf(f) # Bad /\ UpstreamOf(f) \in Upstream /\ UpstreamOf(f).port = Number(f.port)
          /\ UpstreamOf(f).auth = ToAuth(f.upBasic, f.upUser, f.upPassword)
      BY <2>3, <2>4, SectionsOf
    <2>6. AuthOk(ToAuth(f.upBasic, f.upUser, f.upPassword))
      <3>1. CASE f.upBasic
        BY <1>2, <1>5, <2>2, <2>3, <2>4, <3>1
      <3>2. CASE ~f.upBasic
        BY <3>2 DEF AuthOk, ToAuth
      <3> QED BY <3>1, <3>2
    <2> QED BY <2>2, <2>3, <2>4, <2>5, <2>6 DEF SettingsAssumption
  <1>6. ASSUME f.mode = "pac"
        PROVE  PacOf(f) # None /\ AuthOk(PacOf(f).auth)
    <2>1. /\ PacOf(f) \in Pac /\ PacOf(f).auth = ToAuth(f.pacBasic, f.pacUser, f.pacPassword)
          /\ PacOf(k) \in Pac /\ PacOf(k).auth = ToAuth(k.pacBasic, k.pacUser, k.pacPassword)
      BY <1>1, SectionsOf
    <2>2. \A p \in Pac : p # None
      BY DEF SettingsAssumption
    <2>3. AuthOk(PacOf(k).auth)
      BY <1>1, <1>2, <1>4, <1>6, <2>1, <2>2 DEF Valid
    <2>4. AuthOk(ToAuth(f.pacBasic, f.pacUser, f.pacPassword))
      <3>1. CASE f.pacBasic
        BY <1>2, <1>6, <2>1, <2>3, <3>1
      <3>2. CASE ~f.pacBasic
        BY <3>2 DEF AuthOk, ToAuth
      <3> QED BY <3>1, <3>2
    <2> QED BY <2>1, <2>2, <2>4
  <1>7. ASSUME f.mode # "direct"
        PROVE  /\ CorpOf(f) # Bad
               /\ CorpOf(f) # None /\ CorpOf(f).on =>
                     CorpOf(f).suffixes # "" /\ CorpOf(f).poll # "0"
    <2>1. CASE f.corpOn
      <3>1. CorpOf(f) = CorpOf(k)
        BY <1>2, <1>7, <2>1 DEF CorpOf
      <3>2. old.corp = CorpOf(k) /\ CorpOf(k) # Bad
        BY <1>2, <1>4, <1>7
      <3> QED BY <1>1, <3>1, <3>2 DEF Valid
    <2>2. CASE ~f.corpOn /\ Trim(f.suffixes) = ""
      <3>1. CorpOf(f) = None
        BY <2>2 DEF CorpOf
      <3> QED BY <3>1 DEF SettingsAssumption
    <2>3. CASE ~f.corpOn /\ Trim(f.suffixes) # ""
      <3> DEFINE poll == IF Trim(f.poll) = "" THEN "30" ELSE Number(f.poll)
      <3>1. Number(f.poll) # Bad
        BY <2>3 DEF Trim
      <3>2. poll # Bad
        BY <3>1, TextFacts
      <3>3. CorpOf(f) = [on |-> f.corpOn, suffixes |-> Trim(f.suffixes), poll |-> poll]
        BY <2>3, <3>2 DEF CorpOf
      <3>4. poll \in Numeral
        <4>1. f.poll \in Text
          BY DEF Form
        <4> QED BY <3>1, <4>1, NumberOf, TextFacts
      <3> HIDE DEF poll
      <3>5. CorpOf(f) \in Corp
        <4>1. Trim(f.suffixes) \in {"", "s"}
          BY <1>3 DEF Trim
        <4>2. [on |-> f.corpOn, suffixes |-> Trim(f.suffixes), poll |-> poll] \in Corp
          BY <1>3, <3>4, <4>1 DEF Corp
        <4> QED BY <3>3, <4>2
      <3>6. CorpOf(f).on = f.corpOn
        <4>1. [on |-> f.corpOn, suffixes |-> Trim(f.suffixes), poll |-> poll].on = f.corpOn
          OBVIOUS
        <4> QED BY <3>3, <4>1
      <3> QED BY <2>3, <3>5, <3>6 DEF SettingsAssumption
    <2> QED BY <2>1, <2>2, <2>3
  <1>8. new # Bad
    BY <1>2, <1>4, <1>5, <1>7, Parses
  <1>9. /\ new.listen = Number(f.listen) /\ new.mode = f.mode
        /\ new.upstream = IF f.mode = "upstream" THEN UpstreamOf(f) ELSE None
        /\ new.pac = IF f.mode = "pac" THEN PacOf(f) ELSE None
        /\ new.corp = IF f.mode = "direct" THEN None ELSE CorpOf(f)
    BY <1>8, ToConfigOf
  <1>10. Number(f.listen) # "0"
    BY <1>1, <1>2, <1>4 DEF Valid
  <1> HIDE DEF new
  <1>11. /\ new.upstream # None => new.upstream.port # "0" /\ AuthOk(new.upstream.auth)
         /\ new.mode = "upstream" => new.upstream # None
    BY <1>5, <1>9
  <1>12. /\ new.pac # None => AuthOk(new.pac.auth)
         /\ new.mode = "pac" => new.pac # None
    BY <1>6, <1>9
  <1>13. new.corp # None /\ new.corp.on => new.corp.suffixes # "" /\ new.corp.poll # "0"
    BY <1>7, <1>9
  <1>14. Valid(new)
    BY <1>9, <1>10, <1>11, <1>12, <1>13 DEF Valid
  <1> QED BY <1>8, <1>14 DEF Blocked, new

\* What keeps a form from being applied is on screen, but for the re-check
\* interval of a gate that is switched off.
THEOREM HiddenNeverBlocksHolds == Spec => []HiddenNeverBlocks
  <1>1. IInv => HiddenNeverBlocks
    <2> SUFFICES ASSUME IInv, Blocked(form), ~Blocked(OnScreen(form))
                 PROVE  ~form.corpOn /\ form.suffixes # "" /\ Number(form.poll) = Bad
      BY DEF HiddenNeverBlocks
    <2>1. form \in Form
      BY DEF IInv, TypeOK
    <2> QED BY <2>1, NotBlocked
  <1> QED BY <1>1, Invariance, PTL

=============================================================================
