------------------------------- MODULE Lookups -------------------------------
(***************************************************************************)
(* What the program reads out of text that others wrote, as functions of   *)
(* that text: the proxy list PAC or WinHTTP returns                        *)
(* (zicade-routing/src/pac.rs), the Windows proxy settings with their      *)
(* bypass list (zicade-win/src/winhttp), the DNS suffixes of the           *)
(* corporate-network gate (apps/zicade/src/netmon/mod.rs), and the body of *)
(* a gateway's refusal, read up to the next response                       *)
(* (zicade-proxy/src/upstream/wire.rs).                                    *)
(*                                                                         *)
(* A text is a sequence of symbols: a character, or a whole token where    *)
(* only the token matters; letters are in one case.  A behaviour picks one *)
(* input and computes its result.                                          *)
(***************************************************************************)
EXTENDS Integers, SequencesExt

CONSTANTS
    None,        \* no result yet
    MaxText,     \* bound: length of a host, suffix, pattern or list
    MaxDrain     \* MAX_DRAIN_BYTES

ASSUME LookupsAssumption == MaxText \in Nat /\ MaxDrain \in Nat

VARIABLES
    input,   \* what is looked up
    result   \* what the code makes of it

vars == <<input, result>>

\* str::split: the parts between separators, empty ones included.
Split(s, separators) ==
    FoldLeft(LAMBDA parts, x :
                 IF x \in separators
                 THEN Append(parts, <<>>)
                 ELSE [parts EXCEPT ![Len(parts)] = Append(@, x)],
             <<(<<>>)>>, s)

NonEmpty(parts) == SelectSeq(parts, LAMBDA p : p # <<>>)

\* What comes before and after the first x in s.
Before(s, x) == IF Contains(s, x) THEN SubSeq(s, 1, SelectInSeq(s, LAMBDA y : y = x) - 1) ELSE s
After(s, x) == SubSeq(s, SelectInSeq(s, LAMBDA y : y = x) + 1, Len(s))

-----------------------------------------------------------------------------
(***************************************************************************)
(* PacResult::parse.  A list is made of keywords, addresses ("p", "q": a   *)
(* host with a port), texts that are no address ("bad"), and ";".  Tokens  *)
(* that follow each other are separated by blanks.                         *)
(***************************************************************************)
Address == {"p", "q"}
Token == Address \cup {"DIRECT", "PROXY", "SOCKS", "bad"}

\* Mutant: an entry that cannot be used ends the search.
StopAtBad(entry) ==
    CASE entry[1] = "DIRECT" -> "direct"
      [] entry[1] \in Address -> entry[1]
      [] entry[1] = "PROXY" /\ Len(entry) > 1 /\ entry[2] \in Address -> entry[2]
      [] OTHER -> "direct"

\* One entry: its first token decides, or the entry is skipped.
ParseEntry(entry) ==
    CASE entry[1] = "DIRECT" -> "direct"
      [] entry[1] \in Address -> entry[1]
      [] entry[1] = "PROXY" /\ Len(entry) > 1 /\ entry[2] \in Address -> entry[2]
      [] OTHER -> None

ParseList(list) ==
    LET entries == NonEmpty(Split(list, {";"}))
        usable == SelectSeq(entries, LAMBDA e : ParseEntry(e) # None)
    IN IF usable = <<>> THEN "direct" ELSE ParseEntry(usable[1])

-----------------------------------------------------------------------------
(***************************************************************************)
(* Discovery (source = "auto").                                            *)
(***************************************************************************)

\* host_of: the host in a URL, without user, port and path.
HostOf(url) ==
    LET rest == IF Contains(url, "://") THEN After(url, "://") ELSE url
        authority == Split(rest, {"/", "?", "#"})[1]
        hostPort == Last(Split(authority, {"@"}))
        bracketed == hostPort # <<>> /\ hostPort[1] = "["
    IN CASE bracketed /\ Contains(hostPort, "]") -> Before(Tail(hostPort), "]")
         [] bracketed /\ ~Contains(hostPort, "]") -> hostPort
         [] ~bracketed -> Before(hostPort, ":")

\* str::find, and what is left behind the match: at most one text.
SkipPast(rest, part) ==
    LET at == {i \in 1..(Len(rest) - Len(part) + 1) :
                  SubSeq(rest, i, i + Len(part) - 1) = part}
    IN IF at = {} THEN {} ELSE {SubSeq(rest, Min(at) + Len(part), Len(rest))}

\* Mutant: the trailing part is only looked for.
EndsLoosely(rest, part) == SkipPast(rest, part) # {}

\* The part after the last star.
EndsWith(rest, part) == IsSuffix(part, rest)

\* wildcard_match.
WildcardMatch(pattern, text) ==
    LET parts == Split(pattern, {"*"})
        start == IF IsPrefix(parts[1], text)
                 THEN {SubSeq(text, Len(parts[1]) + 1, Len(text))} ELSE {}
        left == FoldLeft(LAMBDA rest, part : UNION {SkipPast(r, part) : r \in rest},
                         start, SubSeq(parts, 2, Len(parts) - 1))
    IN IF Len(parts) = 1
       THEN pattern = text
       ELSE \E rest \in left : EndsWith(rest, Last(parts))

\* host_bypassed.
HostBypassed(host, entries) ==
    \E k \in DOMAIN entries :
        IF entries[k] = <<"<local>">>
        THEN ~Contains(host, ".")
        ELSE WildcardMatch(entries[k], host)

\* StaticResolver.
StaticResolve(settings, url) ==
    IF HostBypassed(HostOf(url), NonEmpty(Split(settings.bypass, {";"})))
    THEN "direct"
    ELSE ParseList(settings.proxy)

\* A setting that holds something besides blanks; absent ones are empty.
IsSet(text) == NonEmpty(Split(text, {" "})) # <<>>

\* select_strategy.
Strategy(settings) ==
    CASE IsSet(settings.script) -> "script"
      [] ~IsSet(settings.script) /\ settings.detect -> "wpad"
      [] ~IsSet(settings.script) /\ ~settings.detect /\ IsSet(settings.proxy) -> "static"
      [] OTHER -> "direct"

\* Backend::from_system and resolve: a session asks the script it was opened
\* with and no other, or else the one that WPAD finds.
Resolve(settings, url) ==
    IF Strategy(settings) = "static"
    THEN StaticResolve(settings, url)
    ELSE Strategy(settings)

-----------------------------------------------------------------------------
(***************************************************************************)
(* on_corp.                                                                *)
(***************************************************************************)

\* normalize: dots at both ends are dropped.
Normalize(s) ==
    LET kept == {i \in DOMAIN s : s[i] # "."}
    IN IF kept = {} THEN <<>> ELSE SubSeq(s, Min(kept), Max(kept))

\* Mutant: any suffix will do.
EndsAnywhere(a, c) == IsSuffix(c, a)

SuffixMatches(a, c) == a = c \/ IsSuffix(<<".">> \o c, a)

OnCorp(active, configured) ==
    /\ Normalize(configured) # <<>> /\ Normalize(active) # <<>>
    /\ SuffixMatches(Normalize(active), Normalize(configured))

-----------------------------------------------------------------------------
(***************************************************************************)
(* drain_body.  "nl" is the end of a line, "H" the next response.  Each    *)
(* function returns the stream behind what it read, or nothing if it       *)
(* fails.                                                                  *)
(***************************************************************************)
Discard(s, n) ==
    IF n > MaxDrain \/ n > Len(s) THEN {} ELSE {SubSeq(s, n + 1, Len(s))}

\* read_line takes the end of the stream for the end of the line.
SkipLine(s) == IF Contains(s, "nl") THEN After(s, "nl") ELSE <<>>

\* The size field: the line up to an extension, as a number.
Digit == [d \in {"0", "1", "2", "3"} |->
             CASE d = "0" -> 0 [] d = "1" -> 1 [] d = "2" -> 2 [] d = "3" -> 3]
SizeField(s) == Before(Before(s, "nl"), ";")
HasSize(s) == Len(SizeField(s)) = 1 /\ SizeField(s)[1] \in DOMAIN Digit

\* Mutant: the end of the chunk's line is not read.
StayAfterData(s) == s

\* Behind a chunk's data.
EndOfChunk(s) == SkipLine(s)

DrainChunked(s) ==
    LET drained[r \in {SubSeq(s, i, Len(s)) : i \in 1..(Len(s) + 1)}, total \in 0..MaxDrain] ==
            IF ~HasSize(r) THEN {}
            ELSE LET size == Digit[SizeField(r)[1]] IN
                 IF size = 0 THEN {SkipLine(SkipLine(r))}
                 ELSE IF total + size > MaxDrain THEN {}
                 ELSE UNION {drained[EndOfChunk(rest), total + size] :
                                rest \in Discard(SkipLine(r), size)}
    IN drained[s, 0]

\* A Content-Length wins over chunked; without either there is no body.
DrainBody(s, headers) ==
    CASE headers.length >= 0 -> Discard(s, headers.length)
      [] headers.length < 0 /\ headers.chunked -> DrainChunked(s)
      [] OTHER -> {s}

-----------------------------------------------------------------------------
(***************************************************************************)
(* The inputs.                                                             *)
(***************************************************************************)
Texts(symbols, n) == BoundedSeq(symbols, n)

\* What a script or WinHTTP returned; a null list is the empty one.
ListInputs == [kind : {"list"}, list : Texts(Token \cup {";"}, MaxText)]

SuffixInputs ==
    [kind : {"suffix"}, active : Texts({"a", "b", "."}, MaxText + 1),
     configured : Texts({"a", "b", "."}, MaxText - 1)]

\* A URL in its parts; a host with a colon is an IPv6 address, in brackets.
Host == Texts({"a", "b", "."}, MaxText - 1) \ {<<>>}
Url == [user : {<<>>, <<"u", ":", "u", "@">>}, host : Host \cup {<<":", "a">>},
        port : {<<>>, <<":", "8">>}, tail : {<<>>, <<"/", "u", "@", "b", ":">>, <<"?", "://">>}]

UrlText(u) ==
    <<"s", "://">> \o u.user
      \o (IF Contains(u.host, ":") THEN <<"[">> \o u.host \o <<"]">> ELSE u.host)
      \o u.port \o u.tail

Bypass == Texts({"a", "b", ".", "*", ";"}, MaxText) \cup {<<"<local>">>, <<"<local>", ";", "b">>}

\* One URL against every bypass list, and every setting against every URL.
AutoInputs ==
    [kind : {"auto"}, url : [user : {<<>>}, host : Host, port : {<<":", "8">>}, tail : {<<>>}],
     settings : [script : {<<>>}, detect : {FALSE}, proxy : {<<"p">>}, bypass : Bypass]]
    \cup
    [kind : {"auto"}, url : Url,
     settings : [script : {<<>>, <<" ">>, <<"f">>}, detect : BOOLEAN,
                 proxy : {<<>>, <<" ">>, <<"p">>, <<"bad", ";", "q">>},
                 bypass : {<<>>, <<"<local>">>, <<"*", ".", "a">>, <<"b", "*">>}]]

\* A refusal's body: how it is framed, its chunks, and how many trailer fields
\* follow them.  `data` is a byte of it, which may look like the end of a line.
BodyInputs ==
    [kind : {"body"}, framing : {"length", "chunked", "both", "close"},
     chunks : Texts({"1", "2", "3"}, 2), trailers : 0..2, extension : BOOLEAN,
     data : {"d", "nl"}]

Sizes(b) == FoldLeft(LAMBDA n, c : n + Digit[c], 0, b.chunks)
Repeat(x, n) == [i \in 1..n |-> x]

\* What the gateway sends behind the head of the refusal.
Sent(b) ==
    LET ext == IF b.extension THEN <<";", "e">> ELSE <<>>
        chunk(c) == <<c>> \o ext \o <<"nl">> \o Repeat(b.data, Digit[c]) \o <<"nl">>
        all == FoldLeft(LAMBDA s, c : s \o chunk(c), <<>>, b.chunks)
        trailer == FlattenSeq(Repeat(<<"t", "nl">>, b.trailers))
    IN IF b.framing \in {"chunked", "both"}
       THEN all \o <<"0">> \o ext \o <<"nl">> \o trailer \o <<"nl", "H">>
       ELSE Repeat(b.data, Sizes(b)) \o <<"H">>

Headers(b) == [length |-> IF b.framing \in {"length", "both"} THEN Sizes(b) ELSE -1,
               chunked |-> b.framing \in {"chunked", "both"}]

Init ==
    /\ \/ input \in ListInputs
       \/ input \in SuffixInputs
       \/ input \in AutoInputs
       \/ input \in BodyInputs
    /\ result = None

LookUp(kind, answer) ==
    /\ input.kind = kind /\ result = None
    /\ result' = answer
    /\ UNCHANGED input

Next ==
    \/ LookUp("list", ParseList(input.list))
    \/ LookUp("suffix", OnCorp(input.active, input.configured))
    \/ LookUp("auto", Resolve(input.settings, UrlText(input.url)))
    \/ LookUp("body", DrainBody(Sent(input), Headers(input)))

Spec == Init /\ [][Next]_vars

Found(kind) == input.kind = kind /\ result # None

-----------------------------------------------------------------------------
\* Where a list says something usable: DIRECT, or an address that is not
\* SOCKS's.
Usable(list) ==
    {i \in DOMAIN list :
        \/ list[i] = "DIRECT"
        \/ /\ list[i] \in Address
           /\ i = 1 \/ list[i - 1] # "SOCKS"}

\* Read from left to right, the first of them counts.
FirstUsable(list) ==
    LET usable == Usable(list)
    IN IF usable = {} \/ list[Min(usable)] = "DIRECT" THEN "direct" ELSE list[Min(usable)]

\* "Return the FIRST usable entry" (pac.rs), however many useless ones come
\* first.  Entries separated by blanks only, which the same comment allows,
\* are missed behind a useless one: only the first of them is looked at.
FirstUsableEntry ==
    Found("list") =>
        \/ result = FirstUsable(input.list)
        \/ \E e \in ToSet(NonEmpty(Split(input.list, {";"}))) :
              ParseEntry(e) = None /\ Usable(e) # {}

\* "*" stands for any run of characters, by its definition.
Glob(pattern, text) ==
    LET match[i \in 0..Len(pattern), j \in 0..Len(text)] ==
            IF i = 0 THEN j = 0
            ELSE IF pattern[i] = "*" THEN match[i - 1, j] \/ (j > 0 /\ match[i, j - 1])
            ELSE j > 0 /\ pattern[i] = text[j] /\ match[i - 1, j - 1]
    IN match[Len(pattern), Len(text)]

Bypassed(host, bypass) ==
    \E e \in ToSet(Split(bypass, {";"})) :
        \/ e = <<"<local>">> /\ "." \notin ToSet(host)
        \/ e # <<>> /\ e # <<"<local>">> /\ Glob(e, host)

\* "auto" resolves as Windows does: the first of script, WPAD and manual proxy
\* that is there decides, and the manual proxy is used for exactly the hosts no
\* bypass pattern stands for, whatever else is in the URL (discovery.rs).
AutoFollowsWindows ==
    Found("auto") =>
        LET s == input.settings
            given == <<ToSet(s.script) \ {" "} # {}, s.detect, ToSet(s.proxy) \ {" "} # {}>>
            first == SelectInSeq(given, LAMBDA g : g)
        IN result = CASE first = 1 -> "script"
                      [] first = 2 -> "wpad"
                      [] first = 3 /\ ~Bypassed(input.url.host, s.bypass) ->
                            FirstUsable(s.proxy)
                      [] OTHER -> "direct"

\* The labels of a suffix; dots around it do not count.
Labels(s) == Split(Normalize(s), {"."})

\* A configured suffix matches whole labels at the end of an active one, never
\* the end of a label, and an empty one matches nothing (netmon/mod.rs).
SuffixesMatchByLabel ==
    Found("suffix") =>
        result <=> /\ ToSet(input.configured) \ {"."} # {}
                   /\ IsSuffix(Labels(input.configured), Labels(input.active))

\* "The connection is positioned at the next response" after the body of a
\* refusal, or the leg fails because the body is too long: for each framing
\* HTTP allows, whatever the bytes are.  Trailer fields, and chunks behind a
\* Content-Length, leave the stream somewhere else.
DrainPositions ==
    Found("body") =>
        CASE input.framing = "close" -> result = {Sent(input)}
          [] Sizes(input) > MaxDrain -> result = {}
          [] input.framing = "both" -> result # {<<"H">>}
          [] OTHER -> (result = {<<"H">>}) <=> (input.framing = "length" \/ input.trailers = 0)
=============================================================================
