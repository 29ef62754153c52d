------------------------------- MODULE UrlResolver -------------------------------
(***************************************************************************)
(* UrlResolver: what NewDownloadDialog makes of the address a user types:  *)
(* which server to ask, and for which file.                                *)
(*                                                                         *)
(* A URL is a sequence of its delimiters and of the words between them; a  *)
(* word that is a number is one of Numerals.                               *)
(***************************************************************************)
EXTENDS Integers, SequencesExt, TLC

CONSTANTS
  Protocols,     \* protocols a user may type
  Ports,         \* numerals the user may type, <<>> for no port
  Paths,         \* paths the user may type, sequences of tokens
  ParamLists,    \* lists of parameters: sequences of records of a key and a value
  Fragments      \* fragments, sequences of tokens; <<>> is none

VARIABLES
  typed,         \* the address last typed, by its parts
  url_info,      \* what parse made of it
  built          \* what build made of that

urlVars == <<typed, url_info, built>>

Numerals == "0" :> 0 @@ "80" :> 80 @@ "8080" :> 8080 @@ "4464" :> 4464 @@ "70000" :> 70000

Position(url, token, from) == {i \in from..Len(url) : url[i] = token}
Substr(url, from, to)      == SubSeq(url, from, to - 1)

\* std::string::find, or else what is given.
FindOr(url, token, from, npos) ==
  LET at == Position(url, token, from) IN IF at = {} THEN npos ELSE CHOOSE i \in at : \A j \in at : i <= j

\* A slip: the value of a parameter is taken to the end of the text.
ValueEnd_Text(url, from, url_end) == FindOr(url, "&", from, Len(url) + 1)

ValueEnd(url, from, url_end) == FindOr(url, "&", from, url_end)

\* to_protocol; the protocol of a text that is none is Unknown.
ToProtocol(str) == IF str \in {<<p>> : p \in {"http", "https", "ftp", "danejoe"}} THEN str[1] ELSE "Unknown"

DefaultPort(protocol) ==
  CASE protocol = "http" -> 80 [] protocol = "https" -> 443 [] protocol = "ftp" -> 21
    [] protocol = "danejoe" -> 8080 [] OTHER -> 0

\* std::stoi and the conversion to uint16_t; it reads the digits at the beginning of the text.
\* If there are none it throws, and nothing catches that: here -1.
ToPort(str) ==
  IF str # <<>> /\ str[1] \in DOMAIN Numerals THEN Numerals[str[1]] % 65536 ELSE -1

\* The loop over the query; of a key that comes twice the first value counts.
ParseQuery(url, from, url_end) ==
  LET Params[pos \in 1..Len(url) + 2] ==
        LET eq    == FindOr(url, "=", pos, 0)
            v_end == ValueEnd(url, eq + 1, url_end)
            rest  == IF v_end + 1 > url_end THEN <<>> ELSE Params[v_end + 1]
        IN  IF eq = 0 \/ eq + 1 > url_end THEN <<>>
            ELSE (Substr(url, pos, eq) :> Substr(url, eq + 1, v_end)) @@ rest
  IN  IF from > url_end THEN <<>> ELSE Params[from]

Unparsed == [protocol |-> "Unknown", host |-> <<>>, port |-> 0, path |-> <<"/">>, query |-> <<>>]

ParseAfterPort(url, info, from, url_end) ==
  LET path_end == FindOr(url, "?", from, url_end)
  IN  IF from > url_end THEN info
      ELSE [info EXCEPT !.path  = IF path_end = from THEN @ ELSE Substr(url, from, path_end),
                        !.query = ParseQuery(url, path_end + 1, url_end)]

Parse(url) ==
  LET url_end  == FindOr(url, "#", 1, Len(url) + 1)
      sep      == FindOr(url, "://", 1, 0)
      from     == sep + 1
      host_end == FindOr(url, "/", from, url_end)
      colon    == FindOr(url, ":", from, host_end + 1)
      protocol == ToProtocol(Substr(url, 1, sep))
      info     == [Unparsed EXCEPT !.protocol = protocol]
  IN  CASE sep = 0 -> Unparsed
        [] sep # 0 /\ from > url_end -> info
        [] sep # 0 /\ from <= url_end /\ colon > host_end ->
             ParseAfterPort(url, [info EXCEPT !.host = Substr(url, from, host_end),
                                              !.port = DefaultPort(protocol)], host_end, url_end)
        [] OTHER ->
             IF colon + 1 > url_end THEN [info EXCEPT !.host = Substr(url, from, colon)]
             ELSE ParseAfterPort(url, [info EXCEPT !.host = Substr(url, from, colon),
                                                   !.port = ToPort(Substr(url, colon + 1, host_end))],
                                 host_end, url_end)

\* build, with the numeral of the port
BuildUrl(info) ==
  LET numeral == CHOOSE n \in DOMAIN Numerals : Numerals[n] = info.port
      keys    == SetToSeq(DOMAIN info.query)
      Param(i) == (IF i = 1 THEN <<"?">> ELSE <<"&">>) \o keys[i] \o <<"=">> \o info.query[keys[i]]
  IN  (IF info.protocol = "Unknown" THEN <<>> ELSE <<info.protocol>>) \o <<"://">> \o info.host
      \o <<":", numeral>> \o info.path \o FlattenSeq([i \in DOMAIN keys |-> Param(i)])

-----------------------------------------------------------------------------
Written(t) ==
  <<t.protocol, "://", "host">> \o (IF t.port = <<>> THEN <<>> ELSE <<":">> \o t.port) \o t.path
  \o FlattenSeq([i \in DOMAIN t.params |->
       <<IF i = 1 THEN "?" ELSE "&", t.params[i].key, "=", t.params[i].value>>])
  \o (IF t.fragment = <<>> THEN <<>> ELSE <<"#">> \o t.fragment)

UrlInit == typed = <<>> /\ url_info = <<>> /\ built = <<>>

\* on_add_download_push_button_clicked and on_start_task_action_triggered
ParseTyped(address) ==
  /\ typed' = <<address>>
  /\ url_info' = <<Parse(Written(address))>>
  /\ built' = <<>>

BuildParsed ==
  /\ url_info # <<>> /\ built = <<>> /\ url_info[1].port \in Range(Numerals)
  /\ built' = <<BuildUrl(url_info[1])>>
  /\ UNCHANGED <<typed, url_info>>

UrlNext ==
  \/ \E address \in [protocol : Protocols, port : Ports, path : Paths, params : ParamLists,
                     fragment : Fragments] : ParseTyped(address)
  \/ BuildParsed
UrlSpec == UrlInit /\ [][UrlNext]_urlVars

-----------------------------------------------------------------------------
\* An address is read as it was meant, its port defaulting to the protocol's and its path to /,
\* whatever fragment follows, and build writes an address that is read the same (parse, build).
\* Excepted is a query without a path: parse takes it for a part of the host or the port.
AddressesAreUnderstood ==
  \A t \in Range(typed) : (t.path = <<>> => t.params = <<>>) =>
    LET info == url_info[1]
        known == t.protocol \in {"http", "https", "ftp", "danejoe"}
    IN  /\ info.protocol = IF known THEN t.protocol ELSE "Unknown"
        /\ info.host = <<"host">>
        /\ info.port = IF t.port = <<>> THEN DefaultPort(info.protocol)
                       ELSE Numerals[t.port[1]] % 65536
        /\ info.path = IF t.path = <<>> THEN <<"/">> ELSE t.path
        /\ DOMAIN info.query = {<<p.key>> : p \in Range(t.params)}
        /\ \A i \in DOMAIN t.params :
             (\A j \in 1..i - 1 : t.params[j].key # t.params[i].key)
               => info.query[<<t.params[i].key>>] = <<t.params[i].value>>
        /\ built # <<>> => Parse(built[1]) = info
=============================================================================
