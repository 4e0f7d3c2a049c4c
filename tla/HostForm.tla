------------------------------- MODULE HostForm -------------------------------
(***************************************************************************)
(* The dialog that creates and edits a host, and the path of its fields:   *)
(* the panel -> the form -> the schema of the host's protocol -> the       *)
(* payload -> the panel.                                                   *)
(*                                                                         *)
(* The fields of a form are drawn in sections of an accordion, of which at *)
(* most one is open; a field whose section is closed keeps its value.  The *)
(* noise rows are drawn from a copy that the section makes as it opens.    *)
(*                                                                         *)
(* A text is Empty, "text" or, where the panel fills variables into it,    *)
(* one whose braces do not close; a number is what was typed, and "null"   *)
(* and "undefined" are null and undefined.  Of nested settings, one key of *)
(* a kind stands for all of them, and of one that passes as it is it       *)
(* matters whether it is set.  Null and undefined are one to the panel for *)
(* such a key, and so are null and an empty list for the headers and the   *)
(* noise: they are one here.                                               *)
(***************************************************************************)
EXTENDS Naturals, Sequences, SequencesExt, FiniteSets

CONSTANTS
  HostIds,      \* ids of the hosts that a chain may have
  MaxNoise,     \* rows of noise, 5 in the code
  MaxHeaders,   \* bound: rows of headers
  MaxEdits      \* bound: edits of one form

VARIABLES
  open,       \* the dialog is
  entity,     \* {host}, as it was loaded for the edition, or {} for a creation
  profile,    \* of the host's protocol
  form,       \* values of the form, a function on the profile's fields
  section,    \* the open one, or "none"
  copy,       \* forms of NoiseField
  aliased,    \* its rows are the form's
  touched,    \* fields the administrator has set
  edits,
  sent        \* {} or {what was submitted}

vars == <<open, entity, profile, form, section, copy, aliased, touched, edits, sent>>

-----------------------------------------------------------------------------
(* The profiles *)

Profiles == {"general", "wireguard", "hysteria2", "shadowtls", "tuic"}
Protocols == {"vless", "vmess", "trojan", "shadowsocks", "shadowsocks2022", "wireguard",
              "hysteria2", "shadowtls", "tuic"}

useProfileStrategy(protocol) == IF protocol \in Profiles THEN protocol ELSE "general"

HostSchema == {"remark", "address", "is_disabled", "weight", "port", "chain_ids"}
TlsSchema == {"sni", "alpn", "allowinsecure"}
GeneralSchema ==
  HostSchema \union TlsSchema \union
  {"path", "host", "mux_settings", "http_headers", "fragment", "fingerprint",
   "splithttp_settings", "noise", "early_data", "security"}
WireguardSchema == HostSchema \union {"path", "allowed_ips", "mtu", "dns_servers"}
Hysteria2Schema == HostSchema \union TlsSchema \union {"path"}
ShadowTlsSchema == HostSchema \union TlsSchema
TuicSchema == HostSchema \union TlsSchema

(* What a schema does not name is stripped, whatever the panel has for it.  Of
   what none of them names (the services of a host, its uuid, flow, ...) there is
   universal. *)
Schema(p) ==
  CASE p = "general" -> GeneralSchema
    [] p = "wireguard" -> WireguardSchema
    [] p = "hysteria2" -> Hysteria2Schema
    [] p = "shadowtls" -> ShadowTlsSchema
    [] p = "tuic" -> TuicSchema

Empty == ""
Texts == {Empty, "text"}
Malformed == "malformed"
Formats == Texts \union {Malformed}
NullableTexts == Texts \union {"null", "undefined"}
Ports == {Empty, "443", "70000"}
alpnOptions == {"none", "h2"}
Fingerprints == {"none", "chrome"}
Securities == {"inbound_default", "none", "tls"}
noiseTypes == {"rand", "str"}
Delays == {Empty, "5", "5-"}
HeaderNames == {Empty, "x"}
MuxProtocols == {"mux_cool", "h2mux"}

NoRow == [type |-> "rand", packet |-> Empty, delay |-> Empty]
NoFragment == [packets |-> Empty, length |-> Empty, interval |-> Empty]
SingBoxKeys == {"padding"}
Numerals == {"null", "5"}
xudpOptions == {"reject", "allow"}
SetMuxCool == [concurrency |-> "null", xudp_proxy_443 |-> "reject"]
NoMuxCool == [concurrency |-> "null", xudp_proxy_443 |-> "undefined"]
MuxCool == [protocol |-> "mux_cool", mux_cool_settings |-> {SetMuxCool},
            sing_box_mux_settings |-> {}]
SplitHttpKeys == {"mode"}
NoXmux == [max_concurrency |-> "null"]
SplitHttp == [keys |-> {}, xmux |-> {NoXmux}]

(* A host of the panel with nothing set, one with all of it, and one that another
   client of the panel left a choice of the dialog empty of. *)
Plain ==
  [universal |-> FALSE, remark |-> "text", address |-> "text", is_disabled |-> FALSE, weight |-> "1",
   port |-> "null", chain_ids |-> {}, sni |-> "null", alpn |-> "none",
   allowinsecure |-> FALSE, path |-> "null", host |-> "null", mux_settings |-> {},
   http_headers |-> <<>>, fragment |-> {}, fingerprint |-> Empty, splithttp_settings |-> {},
   noise |-> <<>>, early_data |-> "null", security |-> "inbound_default",
   allowed_ips |-> "null", mtu |-> "null", dns_servers |-> "null"]

Rich ==
  [universal |-> TRUE, remark |-> "text", address |-> "text", is_disabled |-> TRUE, weight |-> "5",
   port |-> "443", chain_ids |-> HostIds, sni |-> "text", alpn |-> "h2",
   allowinsecure |-> TRUE, path |-> "text", host |-> "text",
   mux_settings |-> {[protocol |-> "h2mux", mux_cool_settings |-> {},
                      sing_box_mux_settings |-> {"padding"}]},
   http_headers |-> [name \in {"x"} |-> "text"],
   fragment |-> {[packets |-> "text", length |-> "text", interval |-> "text"]},
   fingerprint |-> "chrome",
   splithttp_settings |-> {[keys |-> {"mode"}, xmux |-> {[NoXmux EXCEPT !.max_concurrency = "5"]}]},
   noise |-> [i \in 1..MaxNoise - 1 |-> [type |-> "str", packet |-> "text", delay |-> "5"]],
   early_data |-> "443", security |-> "tls", allowed_ips |-> "text", mtu |-> "443",
   dns_servers |-> "text"]

Foreign ==
  [Rich EXCEPT !.mux_settings =
    {[MuxCool EXCEPT !.mux_cool_settings = {[SetMuxCool EXCEPT !.xudp_proxy_443 = "null"]}]}]

Hosts(p) == {[x \in Schema(p) \union {"universal"} |-> h[x]] : h \in {Plain, Rich, Foreign}}

(* Mutant: nothing is chosen of alpn, as in the other profiles. *)
defaultValue_EmptyAlpn(p) ==
  [x \in Schema(p) |->
    CASE x \in {"remark", "address", "alpn"} -> Empty
      [] x = "port" -> "443"
      [] x \in {"weight", "mtu", "allowed_ips"} -> "undefined"
      [] x = "fingerprint" -> "none"
      [] OTHER -> Plain[x]]

(* The form of a host that is yet to be created. *)
defaultValue(p) ==
  [x \in Schema(p) |->
    CASE x \in {"remark", "address"} -> Empty
      [] x \in {"sni", "path", "alpn", "dns_servers"} /\ p # "general" -> Empty
      [] x = "port" -> "443"
      [] x = "weight" -> IF p = "tuic" THEN "1" ELSE "undefined"
      [] x \in {"mtu", "allowed_ips"} -> "undefined"
      [] x = "fingerprint" -> "none"
      [] OTHER -> Plain[x]]

Closed ==
  /\ open = FALSE /\ entity = {} /\ profile = "general" /\ form = defaultValue("general")
  /\ section = "none" /\ copy = <<>> /\ aliased = FALSE /\ touched = {} /\ edits = 0

Init == Closed /\ sent = {}

-----------------------------------------------------------------------------
(* From the panel to the form, and back *)

transformToFields(dictionary) ==
  LET names == SetToSeq(DOMAIN dictionary)
  IN [i \in DOMAIN names |-> [name |-> names[i], value |-> dictionary[names[i]]]]

(* A row without a name is left out; of two rows of one name, the last one
   counts. *)
transformToDictionary(fields) ==
  [n \in {fields[i].name : i \in DOMAIN fields} \ {Empty} |->
    fields[CHOOSE i \in DOMAIN fields :
             /\ fields[i].name = n
             /\ \A j \in i + 1..Len(fields) : fields[j].name # n].value]

formMutationToAPIAdapter(h) ==
  [x \in DOMAIN h |-> IF x = "http_headers" THEN transformToFields(h[x]) ELSE h[x]]

(* Ports are 1 to 65535, if there are any. *)
Valid(f) ==
  /\ f["remark"] # Empty /\ f["address"] # Empty
  /\ \A x \in {"port", "early_data"} \intersect DOMAIN f : f[x] # "70000"
  /\ "fragment" \in DOMAIN f =>
       \A g \in f["fragment"] : \A k \in DOMAIN g : g[k] # Empty
  /\ "noise" \in DOMAIN f => \A i \in DOMAIN f["noise"] : f["noise"][i].delay # Empty
  /\ "mux_settings" \in DOMAIN f =>
       \A m \in f["mux_settings"] : \A c \in m.mux_cool_settings : c.xudp_proxy_443 # "null"

(* What is undefined gets its default. *)
DefaultedMux(mux) ==
  {[m EXCEPT !.mux_cool_settings =
      {[c EXCEPT !.xudp_proxy_443 = IF @ = "undefined" THEN "reject" ELSE @] : c \in @}] : m \in mux}

(* Mutant: null is coerced, too. *)
Parsed_CoercesNull(f) ==
  [x \in DOMAIN f \intersect Schema(profile) |->
    CASE x \in {"port", "early_data"} /\ f[x] = Empty -> "null"
      [] x \in {"weight", "mtu"} /\ f[x] \in {Empty, "null"} -> "0"
      [] x = "mux_settings" -> DefaultedMux(f[x])
      [] OTHER -> f[x]]

(* The schema takes what it names.  What was cleared is null, or 0 where a number is coerced. *)
Parsed(f) ==
  [x \in DOMAIN f \intersect Schema(profile) |->
    CASE x \in {"port", "early_data"} /\ f[x] = Empty -> "null"
      [] x \in {"weight", "mtu"} /\ f[x] = Empty -> "0"
      [] x = "mux_settings" -> DefaultedMux(f[x])
      [] OTHER -> f[x]]

(* "none" becomes Empty only if both are chosen: a profile without a fingerprint
   sends its alpn as it is. *)
transformFormValue(v) ==
  IF v["alpn"] = Empty \/ v["fingerprint"] = Empty THEN v
  ELSE [v EXCEPT !["alpn"] = IF @ = "none" THEN Empty ELSE @,
                 !["fingerprint"] = IF @ = "none" THEN Empty ELSE @]

transformFormValueHttpHeaders(v) ==
  [v EXCEPT !["http_headers"] = transformToDictionary(@)]

Payload(f) ==
  IF "fingerprint" \in DOMAIN f
  THEN transformFormValueHttpHeaders(transformFormValue(Parsed(f)))
  ELSE Parsed(f)

(* InboundHost of the panel: what it refuses, by its types, its patterns and the
   variables it fills in... *)
Refuses(h) ==
  {x \in DOMAIN h :
    CASE x \in {"remark", "address", "path"} -> h[x] = Malformed
      [] x = "alpn" -> h[x] \notin alpnOptions \union {Empty}
      [] x = "fingerprint" -> h[x] \notin (Fingerprints \ {"none"}) \union {Empty}
      [] x = "weight" -> h[x] = "null"
      [] x = "fragment" -> \E g \in h[x] : \E k \in DOMAIN g : g[k] = Empty
      [] x = "noise" -> \E i \in DOMAIN h[x] : h[x][i].delay # "5"
      [] x = "splithttp_settings" ->
           \E g \in h[x] : \E k \in g.xmux : k.max_concurrency \notin Numerals
      [] OTHER -> FALSE}

(* ... and what it has afterwards, and answers: what is not sent gets its
   default. *)
Stored(h) ==
  [x \in DOMAIN h \union {"universal"} |->
    CASE x = "universal" -> FALSE
      [] x = "alpn" /\ h[x] = Empty -> "none"
      [] x = "weight" /\ h[x] = "undefined" -> "1"
      [] OTHER -> h[x]]

-----------------------------------------------------------------------------
(* The administrator *)

Open(e, protocol) ==
  LET p == useProfileStrategy(protocol) IN
  /\ open' = TRUE /\ entity' = e /\ profile' = p
  /\ form' = IF e = {} THEN defaultValue(p)
             ELSE formMutationToAPIAdapter(CHOOSE h \in e : TRUE)
  /\ sent' = {}
  /\ UNCHANGED <<section, copy, aliased, touched, edits>>

Opens ==
  /\ ~open
  /\ \E protocol \in Protocols :
       \/ Open({}, protocol)
       \/ \E h \in Hosts(useProfileStrategy(protocol)) : Open({h}, protocol)

Sections ==
  CASE profile = "general" -> {"network", "split-http", "camouflage", "mux", "security"}
    [] profile = "wireguard" -> {"wireguard"}
    [] OTHER -> {"tls-settings"}

(* SettingSection: a click opens it and closes the other one, or closes it.
   NoiseField takes its copy of the rows. *)
ToggleSection ==
  \E s \in Sections \union {"none"} :
    /\ open /\ section # s
    /\ section' = s
    /\ copy' = IF s = "camouflage" THEN form["noise"] ELSE <<>>
    /\ aliased' = (s = "camouflage")
    /\ UNCHANGED <<open, entity, profile, form, touched, edits, sent>>

Edits(x, v) ==
  /\ open /\ edits < MaxEdits
  /\ form[x] # v
  /\ form' = [form EXCEPT ![x] = v]
  /\ touched' = touched \union {x}
  /\ edits' = edits + 1
  /\ UNCHANGED <<open, entity, profile, section, sent>>

(* A field outside NoiseField. *)
Set(x, v) == Edits(x, v) /\ UNCHANGED <<copy, aliased>>

In(s) == section = s

RemarkField == \E v \in Formats : Set("remark", v)
IsDisabled == Set("is_disabled", ~form["is_disabled"])
AddressField == \E v \in Formats : Set("address", v)
PortField == \E v \in Ports : Set("port", v)
WeightField == \E v \in {Empty, "5"} : Set("weight", v)
CommonFields == RemarkField \/ IsDisabled \/ AddressField \/ PortField \/ WeightField

ChainHostsField ==
  /\ profile = "general"
  /\ \E id \in HostIds :
       Set("chain_ids", IF id \in form["chain_ids"] THEN form["chain_ids"] \ {id}
                        ELSE form["chain_ids"] \union {id})

(* Null is made Empty and back; only what is not null can be typed. *)
ClearableTextField(x) ==
  \/ form[x] = "null" /\ Set(x, Empty)
  \/ /\ form[x] # "null"
     /\ \E v \in (IF x = "path" THEN Formats ELSE Texts) \union {"null"} : Set(x, v)

EarlyDataField == \E v \in Ports : Set("early_data", v)

(* The button that empties the list is a submit button, and so are those of the
   rows; none of them submits: as the click ends, one is disabled and the others
   are gone. *)
HttpHeadersDynamicFields ==
  LET fields == form["http_headers"] IN
  \/ fields # <<>> /\ Set("http_headers", <<>>)
  \/ /\ Len(fields) < MaxHeaders
     /\ Set("http_headers", Append(fields, [name |-> Empty, value |-> Empty]))
  \/ \E i \in DOMAIN fields :
       \/ Set("http_headers", RemoveAt(fields, i))
       \/ \E n \in HeaderNames : Set("http_headers", [fields EXCEPT ![i].name = n])
       \/ \E v \in Texts : Set("http_headers", [fields EXCEPT ![i].value = v])

SplitHttpFields ==
  LET old == form["splithttp_settings"] IN
  \/ Set("splithttp_settings", IF old = {} THEN {SplitHttp} ELSE {})
  \/ \E h \in old, k \in SplitHttpKeys :
       Set("splithttp_settings", {[h EXCEPT !.keys = SymDiff(@, {k})]})

(* The switch writes an xmux into the xmux, which the schema strips. *)
SplitHttpXmuxFields ==
  \E h \in form["splithttp_settings"] :
    \/ Set("splithttp_settings", {[h EXCEPT !.xmux = IF @ = {} THEN {NoXmux} ELSE {}]})
    \/ \E x \in h.xmux, v \in Numerals \union {"text"} :
         Set("splithttp_settings", {[h EXCEPT !.xmux = {[x EXCEPT !.max_concurrency = v]}]})

FragmentField ==
  LET old == form["fragment"] IN
  \/ Set("fragment", IF old = {} THEN {NoFragment} ELSE {})
  \/ \E g \in old, k \in {"packets", "length", "interval"}, v \in Texts :
       Set("fragment", {[g EXCEPT ![k] = v]})

(* It is drawn from the copy.  Adding and removing a row write the copy to the
   form, which clones it: from then on what is typed reaches the form only, and
   the next row that is added or removed takes it back. *)
Rewrite(rows) ==
  /\ Edits("noise", rows)
  /\ copy' = rows /\ aliased' = FALSE

(* Mutant: the row is removed where it is drawn. *)
removeForm_DrawnOnly(i) ==
  /\ Edits("noise", [form["noise"] EXCEPT ![i] = NoRow])
  /\ copy' = RemoveAt(copy, i) /\ aliased' = FALSE

(* Mutant: any number of rows. *)
addForm_Unlimited == Rewrite(Append(copy, NoRow))

addForm == Len(copy) < MaxNoise /\ Rewrite(Append(copy, NoRow))
removeForm(i) == Rewrite(RemoveAt(copy, i))

TypeRow(i) ==
  LET row == form["noise"][i]
      Row(r) == /\ Edits("noise", [form["noise"] EXCEPT ![i] = r])
                /\ copy' = IF aliased THEN [copy EXCEPT ![i] = r] ELSE copy
                /\ UNCHANGED aliased
  IN \/ \E v \in noiseTypes : Row([row EXCEPT !.type = v])
     \/ \E v \in Texts : Row([row EXCEPT !.packet = v])
     \/ \E v \in Delays : Row([row EXCEPT !.delay = v])

NoiseField == addForm \/ \E i \in DOMAIN copy : removeForm(i) \/ TypeRow(i)

(* Another protocol leaves the settings of the one before.  Settings that there are
   not are made of the first of them that is set. *)
MuxSettingsFields ==
  LET old == form["mux_settings"] IN
  \/ Set("mux_settings", IF old = {} THEN {MuxCool} ELSE {})
  \/ \E m \in old :
       \/ \E v \in MuxProtocols : Set("mux_settings", {[m EXCEPT !.protocol = v]})
       \/ /\ m.protocol = "mux_cool"
          /\ \E c \in IF m.mux_cool_settings = {} THEN {NoMuxCool} ELSE m.mux_cool_settings :
               \/ \E v \in Numerals \ {c.concurrency} :
                    Set("mux_settings",
                        {[m EXCEPT !.mux_cool_settings = {[c EXCEPT !.concurrency = v]}]})
               \/ \E v \in xudpOptions :
                    Set("mux_settings",
                        {[m EXCEPT !.mux_cool_settings = {[c EXCEPT !.xudp_proxy_443 = v]}]})
       \/ /\ m.protocol # "mux_cool"
          /\ \E k \in SingBoxKeys :
               Set("mux_settings", {[m EXCEPT !.sing_box_mux_settings = SymDiff(@, {k})]})

AlpnField == \E v \in alpnOptions : Set("alpn", v)
FingerprintField == \E v \in Fingerprints : Set("fingerprint", v)
AllowInsecureField == Set("allowinsecure", ~form["allowinsecure"])
TlsFields == ClearableTextField("sni") \/ AlpnField \/ AllowInsecureField

SecurityFields ==
  \/ \E v \in Securities : Set("security", v)
  \/ form["security"] \in {"tls", "inbound_default"} /\ (TlsFields \/ FingerprintField)

MtuField == \E v \in {Empty, "443"} : Set("mtu", v)
DNSServersField == \E v \in Texts : Set("dns_servers", v)
AllowedIpsField == \E v \in Texts : Set("allowed_ips", v)

GeneralProfileFields ==
  \/ In("network") /\ \/ ClearableTextField("host") \/ ClearableTextField("path")
                      \/ EarlyDataField \/ HttpHeadersDynamicFields
  \/ In("split-http") /\ (SplitHttpFields \/ SplitHttpXmuxFields)
  \/ In("camouflage") /\ (FragmentField \/ NoiseField)
  \/ In("mux") /\ MuxSettingsFields
  \/ In("security") /\ SecurityFields

WireguardProfileFields ==
  /\ In("wireguard")
  /\ ClearableTextField("path") \/ MtuField \/ DNSServersField \/ AllowedIpsField

Hysteria2ProfileFields ==
  profile = "hysteria2" /\ (ClearableTextField("path") \/ (In("tls-settings") /\ TlsFields))
ShadowTlsProfileFields == profile = "shadowtls" /\ In("tls-settings") /\ TlsFields
TuicProfileFields == profile = "tuic" /\ In("tls-settings") /\ TlsFields

Edit ==
  /\ open /\ edits < MaxEdits
  /\ \/ CommonFields \/ ChainHostsField
     \/ GeneralProfileFields \/ WireguardProfileFields \/ Hysteria2ProfileFields
     \/ ShadowTlsProfileFields \/ TuicProfileFields

Closes ==
  /\ open' = FALSE /\ entity' = {} /\ profile' = "general" /\ form' = defaultValue("general")
  /\ section' = "none" /\ copy' = <<>> /\ aliased' = FALSE /\ touched' = {} /\ edits' = 0

Cancel == open /\ Closes /\ sent' = {}

(* A form that is not valid stays as it is, and what is wrong is shown at its
   field, if its section is open.  The dialog closes whatever comes of it. *)
Submit ==
  /\ open /\ Valid(form)
  /\ sent' = {[of |-> entity, touched |-> touched, host |-> Payload(form)]}
  /\ Closes

Next == Opens \/ ToggleSection \/ Edit \/ Cancel \/ Submit
Spec == Init /\ [][Next]_vars

-----------------------------------------------------------------------------
(* Properties *)

MuxCoolSettings ==
  [concurrency : Numerals, xudp_proxy_443 : xudpOptions \union {"null", "undefined"}]
MuxSettings ==
  [protocol : MuxProtocols, mux_cool_settings : {{}} \union {{c} : c \in MuxCoolSettings},
   sing_box_mux_settings : SUBSET SingBoxKeys]
XmuxSettings == [max_concurrency : Numerals \union {"text"}]
SplitHttpSettings ==
  [keys : SUBSET SplitHttpKeys, xmux : {{}} \union {{k} : k \in XmuxSettings}]

Values(x) ==
  CASE x \in {"universal", "is_disabled", "allowinsecure"} -> BOOLEAN
    [] x \in {"remark", "address"} -> Formats
    [] x = "path" -> Formats \union {"null", "undefined"}
    [] x \in {"sni", "host", "dns_servers", "allowed_ips"} -> NullableTexts
    [] x \in {"port", "early_data", "mtu"} -> Ports \union {"null", "undefined"}
    [] x = "weight" -> {Empty, "1", "5", "undefined"}
    [] x = "chain_ids" -> SUBSET HostIds
    [] x = "alpn" -> alpnOptions \union {Empty}
    [] x = "fingerprint" -> Fingerprints \union {Empty}
    [] x = "security" -> Securities
    [] x = "http_headers" -> Seq([name : HeaderNames, value : Texts])
    [] x = "fragment" -> {{}} \union {{g} : g \in [DOMAIN NoFragment -> Texts]}
    [] x = "noise" -> Seq([type : noiseTypes, packet : Texts, delay : Delays])
    [] x = "mux_settings" -> {{}} \union {{m} : m \in MuxSettings}
    [] x = "splithttp_settings" -> {{}} \union {{h} : h \in SplitHttpSettings}

TypeOK ==
  /\ open \in BOOLEAN /\ profile \in Profiles
  /\ entity = {} \/ \E h \in Hosts(profile) : entity = {h}
  /\ DOMAIN form = Schema(profile) \union UNION {DOMAIN h : h \in entity}
  /\ \A x \in DOMAIN form : form[x] \in Values(x)
  /\ section \in Sections \union {"none"}
  /\ copy \in Values("noise") /\ Len(copy) <= MaxNoise
  /\ aliased \in BOOLEAN
  /\ touched \subseteq DOMAIN form
  /\ edits \in 0..MaxEdits
  /\ sent = {} \/ \E s \in sent : sent = {s} /\ s.touched \subseteq DOMAIN s.host

(* Fields where the dialog lets a text pass that the panel has a pattern for, or
   fills its variables into. *)
FreeTexts == {"remark", "address", "path", "noise", "splithttp_settings"}

(* If the panel refuses what the dialog sends, it is for one of these texts, and the
   administrator typed it: what was loaded, what the form starts with or switches on,
   and every number, list and choice was converted to what the panel takes. *)
OnlyTypedIsRefused == \A s \in sent : Refuses(s.host) \subseteq s.touched \intersect FreeTexts

(* A field that is sent and was not touched is stored again as it was, though on
   its way it was made a form of rows, a default and a payload. *)
KeepsUntouched ==
  \A s \in sent : \A h \in s.of :
    \A x \in DOMAIN s.host \ s.touched : Stored(s.host)[x] = h[x]

(* The same of every field the host had.  It fails: a universal host, or one that
   services were given, is not afterwards, whatever was edited. *)
KeepsUnnamed ==
  \A s \in sent : \A h \in s.of :
    \A x \in DOMAIN h \ s.touched : Stored(s.host)[x] = h[x]

(* Each row of noise that will be sent is drawn. *)
NoiseIsDrawn == In("camouflage") => Len(copy) = Len(form["noise"])
=============================================================================
