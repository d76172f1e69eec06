------------------------------ MODULE ProxyList ------------------------------
(***************************************************************************)
(* createProxyPool of packages/qwen-proxy/src/pool/proxy-pool.ts: the keys *)
(* a ProxyPool starts with, from the URLs of the configuration or from one *)
(* request to the NordVPN API, and what the bridge later reads in a key    *)
(* (upstream/proxy-bridge.ts).                                             *)
(*                                                                         *)
(* A user name or password in a key is percent-encoded: Coded(x).  `new    *)
(* URL` shows the ones written in a URL in such a form already.  It leaves *)
(* characters such as + as they are, which encodeURIComponent encodes; a   *)
(* name here has none of these: a+b in a URL and a+b in the options give   *)
(* the code two keys for one proxy.  Nor has a URL here a stray %: its key *)
(* would be kept, and parseSocksUrl would throw on it at every use.        *)
(* Country codes stand for their lower-case form.                          *)
(***************************************************************************)
EXTENDS SequencesExt, Listing

CONSTANTS
  Written,     \* the texts between the separators of SF_QWEN_PROXY_URLS
  MaxWritten,  \* most of them in one value
  Servers,     \* what the API may list: [hostname, load, codes]
  MaxListed,   \* most servers in one answer
  CountryLists,\* sets of country codes; {} allows every country
  Counts,      \* values of SF_QWEN_PROXY_COUNT
  Unset        \* a value that is missing

ASSUME ServersAssumption == \A server \in Servers : server.load \in Nat \cup {Unset}
ASSUME CountsAssumption == Counts \subseteq Nat

VARIABLES
  opts,      \* the arguments of createProxyPool
  progress,  \* start, fetching, reading the body, or done
  servers,   \* the list the API answered
  keys       \* the keys handed to new ProxyPool

listVars == <<opts, progress, servers, keys>>

(* bin/qwen-proxy.ts makes a pool when URLs are written (written # Unset) or *)
(* more than one proxy is asked for, and always gives it fetch.            *)
ListInit ==
  /\ opts \in [written : SeqOf(Written, MaxWritten) \cup {Unset},
               user : {"me", Unset}, pass : {"secret", Unset},
               countries : CountryLists, count : Counts]
  /\ opts.written = Unset => opts.count > 1
  /\ progress = "start"
  /\ servers = <<>>
  /\ keys = <<>>

-----------------------------------------------------------------------------
Coded(x) == [coded |-> x]

(* url.username and url.password, empty when the URL has none.             *)
InUrl(x) == IF x = Unset THEN Unset ELSE Coded(x)

(* The part of the URL, or else the configured one, encoded once.          *)
Credential(own, global) == IF own # Unset THEN InUrl(own) ELSE Coded(global)

Authenticated(text) ==
  /\ text.user # Unset \/ opts.user # Unset
  /\ text.pass # Unset \/ opts.pass # Unset

Normalizes(text) ==
  /\ text.protocol \in {"socks5", "socks5h"}
  /\ text.hostname # Unset
  /\ Authenticated(text)

NormalizeSocksUrl(text) ==
  [protocol |-> text.protocol, hostname |-> text.hostname,
   port |-> IF text.port = Unset THEN 1080 ELSE text.port,
   user |-> Credential(text.user, opts.user),
   pass |-> Credential(text.pass, opts.pass)]

(* Normalised first, so that two spellings of one proxy count once: where  *)
(* indexOf finds the key is where it stands.                               *)
ParseProxyUrls(written) ==
  LET usable == {i \in DOMAIN written : Normalizes(written[i])}
      order == Filtered({i \in usable : \A j \in usable :
                 NormalizeSocksUrl(written[j]) = NormalizeSocksUrl(written[i]) => i <= j})
  IN  [n \in DOMAIN order |-> NormalizeSocksUrl(written[order[n]])]

Allowed(server) ==
  opts.countries = {} \/ server.codes \cap opts.countries # {}

(* A server without a load comes last.                                     *)
Lighter(a, b) == a.load # Unset /\ (b.load = Unset \/ a.load < b.load)

(* The places S of the list by load; sort() keeps the order of equals.     *)
ByLoad(list, S) ==
  Listed(S, {p \in S \X S : \/ Lighter(list[p[1]], list[p[2]])
                            \/ ~Lighter(list[p[2]], list[p[1]]) /\ p[1] < p[2]})

FirstFew(order) ==
  [n \in 1 .. (IF opts.count < Len(order) THEN opts.count ELSE Len(order)) |-> order[n]]

(* Broken variant, for the sensitivity checks: the countries are looked at *)
(* among the least loaded servers only.                                    *)
DiscoverThenFilter(list) ==
  LET order == FirstFew(ByLoad(list, DOMAIN list))
      order2 == Filtered({n \in DOMAIN order : Allowed(list[order[n]])})
  IN  [n \in DOMAIN order2 |-> list[order[order2[n]]]]

Discovered(list) ==
  LET order == FirstFew(ByLoad(list, {i \in DOMAIN list : Allowed(list[i])}))
  IN  [n \in DOMAIN order |-> list[order[n]]]

DiscoveredKey(server) ==
  [protocol |-> "socks5", hostname |-> server.hostname, port |-> 1080,
   user |-> Coded(opts.user), pass |-> Coded(opts.pass)]

-----------------------------------------------------------------------------
StartWith(list) == progress' = "done" /\ keys' = list

(* Text in SF_QWEN_PROXY_URLS wins, even when none of it is usable.        *)
Explicit ==
  /\ progress = "start" /\ opts.written # Unset
  /\ StartWith(ParseProxyUrls(opts.written))
  /\ UNCHANGED <<opts, servers>>

Discover ==
  /\ progress = "start" /\ opts.written = Unset
  /\ IF opts.user = Unset \/ opts.pass = Unset THEN StartWith(<<>>)
     ELSE progress' = "fetching" /\ UNCHANGED keys
  /\ UNCHANGED <<opts, servers>>

(* The request fails or is aborted after ten seconds, its status is not    *)
(* OK, or its body is not a list of servers.                               *)
DiscoveryFails ==
  /\ progress \in {"fetching", "reading"}
  /\ StartWith(<<>>)
  /\ UNCHANGED <<opts, servers>>

(* The headers have come: nothing bounds the wait for the body.            *)
Headers ==
  /\ progress = "fetching"
  /\ progress' = "reading"
  /\ UNCHANGED <<opts, servers, keys>>

Body ==
  /\ progress = "reading"
  /\ \E list \in SeqOf(Servers, MaxListed) :
       /\ servers' = list
       /\ LET taken == Discovered(list)
          IN StartWith([i \in DOMAIN taken |-> DiscoveredKey(taken[i])])
  /\ UNCHANGED opts

ListNext == Explicit \/ Discover \/ DiscoveryFails \/ Headers \/ Body

ListSpec == ListInit /\ [][ListNext]_listVars

-----------------------------------------------------------------------------
(* parseSocksUrl: what the bridge dials for a key.                         *)
Upstream(key) ==
  [host |-> key.hostname, port |-> key.port,
   user |-> key.user.coded, pass |-> key.pass.coded]

(* The proxy an operator means by a text.                                  *)
Meant(text) ==
  [host |-> text.hostname, port |-> IF text.port = Unset THEN 1080 ELSE text.port,
   user |-> IF text.user = Unset THEN opts.user ELSE text.user,
   pass |-> IF text.pass = Unset THEN opts.pass ELSE text.pass]

(* Written URLs: each proxy that can be dialled is dialled as it was       *)
(* meant, in the order of writing, and no key stands in the pool twice (a  *)
(* ledger by key would give the two places one slot).                      *)
WrittenAsMeant ==
  opts.written # Unset /\ progress = "done" =>
    /\ IsInjective(keys)
    /\ \A text \in Range(opts.written) :
         /\ text.protocol \in {"socks5", "socks5h"} /\ text.hostname # Unset
         /\ Unset \notin {Meant(text).user, Meant(text).pass}
         => \E k \in Range(keys) : Upstream(k) = Meant(text) /\ k.protocol = text.protocol
    /\ \E place \in [DOMAIN keys -> DOMAIN opts.written] :
         \A i, j \in DOMAIN keys :
           /\ Upstream(keys[i]) = Meant(opts.written[place[i]])
           /\ Unset \notin {keys[i].user.coded, keys[i].pass.coded}
           /\ i < j => place[i] < place[j]

(* Discovery: as many allowed servers as there are, up to the number asked *)
(* for, the least loaded first, and none that was left out is lighter.     *)
LeastLoadedFirst ==
  opts.written = Unset /\ progress = "done" /\ servers # <<>> =>
    LET allowed == {i \in DOMAIN servers :
                      opts.countries = {} \/ \E c \in servers[i].codes : c \in opts.countries}
    IN /\ Len(keys) = IF Cardinality(allowed) < opts.count THEN Cardinality(allowed)
                                                           ELSE opts.count
       /\ \E place \in [DOMAIN keys -> allowed] :
            /\ IsInjective(place)
            /\ \A i \in DOMAIN keys :
                 /\ Upstream(keys[i]) = [host |-> servers[place[i]].hostname, port |-> 1080,
                                         user |-> opts.user, pass |-> opts.pass]
                 /\ \A k \in allowed \ {place[j] : j \in 1 .. i} :
                      ~Lighter(servers[k], servers[place[i]])

PoolAsConfigured == WrittenAsMeant /\ LeastLoadedFirst
=============================================================================
