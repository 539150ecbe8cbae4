----------------------------- MODULE MailRouting -----------------------------
(***************************************************************************)
(* The mail contract: the subjects and headers the gateway and its agents  *)
(* give their mail (mail_contract, Notifier._send, Send-FallbackMail), and *)
(* what the collector makes of a message it finds (mail.classify).  The    *)
(* two sides share a mailbox with mail of anybody.                         *)
(*                                                                         *)
(* A header has of a message what the rules tell apart.  Its subject is    *)
(* the prefix, what stands in brackets or as a key word after it, and      *)
(* those of the key words that occur in it anywhere else: the names of     *)
(* computers and users may hold any of them.                               *)
(***************************************************************************)
EXTENDS Naturals, Sequences

\* The subject tags, and the key words of older subjects: "RELAY:" or, in Russian,
\* "fallback delivery", and anything else.
Tags == {"RELAY", "REPORT", "WEEKLY", "OWNER CHANGE", "WARNING", "ERROR", "ALERT", "RECOVERY"}
Heads == Tags \cup {"older relay", "text"}

\* "product": [SnipeIT Inventory Gateway].  "inventory": [SNIPEIT-INVENTORY].  "relay":
\* [SNIPEIT-RELAY].  "pcinv": [PCINV- or PC INVENTORY.
Prefixes == {"product", "inventory", "relay", "pcinv", "other"}

\* "OWNER" and "REPORT" stand for the Russian subjects as well, "WARN" for WARNING.
Words == {"WEEKLY", "ERROR", "WARN", "ALERT", "OWNER", "REPORT"}

RoutingTags ==
    [category \in {"relay", "computer-report", "weekly-report", "owner-change", "warning",
                   "error", "alert"} |->
       CASE category = "relay" -> {"RELAY"}
         [] category = "computer-report" -> {"REPORT"}
         [] category = "weekly-report" -> {"WEEKLY"}
         [] category = "owner-change" -> {"OWNER CHANGE"}
         [] category = "warning" -> {"WARNING", "RECOVERY"}
         [] category = "error" -> {"ERROR"}
         [] category = "alert" -> {"ALERT"}]

Headers ==
    [ours : BOOLEAN,        \* the sender is the one of allowed_from
     sole : BOOLEAN,        \* the inventory box is the only recipient
     prefix : Prefixes, head : Heads, words : SUBSET Words,
     relay : BOOLEAN,       \* X-SnipeIT-Relay: 1
     class : {"transport", "notification", "none"},
     category : DOMAIN RoutingTags \cup {"none"},
     envelopes : 0..2,      \* encrypted attachments
     big : BOOLEAN]         \* longer than max_message_bytes

Matches(h, category) == h.prefix = "product" /\ h.head \in RoutingTags[category]

-----------------------------------------------------------------------------
(* The senders.  The configuration is refused unless the gateway sends from *)
(* the one address of allowed_from to the inventory box.                   *)

\* What Notifier._send is called with: reports of a computer, of a transition, of a
\* week, incidents and recoveries.
Mailings ==
    {[category |-> "computer-report", tag |-> "REPORT"],
     [category |-> "owner-change", tag |-> "OWNER CHANGE"],
     [category |-> "weekly-report", tag |-> "WEEKLY"],
     [category |-> "error", tag |-> "ERROR"],
     [category |-> "warning", tag |-> "RECOVERY"]}

Notice(mailing, words) ==
    [ours |-> TRUE, sole |-> TRUE, prefix |-> "product", head |-> mailing.tag,
     words |-> words, relay |-> FALSE, class |-> "notification", category |-> mailing.category,
     envelopes |-> 0, big |-> FALSE]

Notices == {n \in {Notice(x, words) : x \in Mailings, words \in SUBSET Words} :
              Matches(n, n.category)}

RelayMail(words) ==
    [ours |-> TRUE, sole |-> TRUE, prefix |-> "product", head |-> "RELAY", words |-> words,
     relay |-> TRUE, class |-> "transport", category |-> "relay", envelopes |-> 1,
     big |-> FALSE]

-----------------------------------------------------------------------------
(* The collector.                                                          *)

\* Mutant of RouteOk: whom else a message went to is not looked at.
SenderOk(h) == h.ours

RouteOk(h) == h.ours /\ h.sole

IsRelay(h) ==
    \/ Matches(h, "relay") /\ h.relay /\ h.class = "transport"
    \/ h.prefix \in {"product", "inventory"} /\ h.head = "older relay" /\ h.relay
    \/ h.prefix = "relay"

\* Key words of a subject in the order of their weight, with their routes.
Ranks == <<"WEEKLY", "ERROR", "WARN", "ALERT", "OWNER", "REPORT">>
RankRoutes == <<"weekly", "error", "warning", "alert", "owner_change", "report">>

Occurs(h, word) == word \in h.words \/ h.head = word \/ (word = "WARN" /\ h.head = "WARNING")

ByWords(h) ==
    LET ranks == {i \in DOMAIN Ranks : Occurs(h, Ranks[i])}
    IN  IF ranks = {} THEN "none"
        ELSE RankRoutes[CHOOSE i \in ranks : \A j \in ranks : i <= j]

CategoryRoutes ==
    [category \in DOMAIN RoutingTags \ {"relay"} |->
       CASE category = "computer-report" -> "report"
         [] category = "weekly-report" -> "weekly"
         [] category = "owner-change" -> "owner_change"
         [] OTHER -> category]

\* Mutant of Classify: the category header is not looked at.
ClassifyByWords(h) ==
    IF ~ RouteOk(h) THEN "none"
    ELSE IF IsRelay(h) THEN IF h.envelopes = 1 THEN "relay" ELSE "rejected"
    ELSE IF h.prefix \in {"product", "inventory"} THEN ByWords(h) ELSE "none"

\* The first rule that fits.  A category is believed with any subject of the product.
Classify(h) ==
    IF ~ RouteOk(h) THEN "none"
    ELSE IF IsRelay(h) THEN IF h.envelopes = 1 THEN "relay" ELSE "rejected"
    ELSE IF h.category \in DOMAIN CategoryRoutes
      THEN IF Matches(h, h.category) \/ h.prefix = "product"
             THEN CategoryRoutes[h.category] ELSE "none"
    ELSE IF h.prefix = "pcinv" THEN "legacy"
    ELSE IF h.prefix \in {"product", "inventory"} THEN ByWords(h) ELSE "none"

\* ingest_message before it looks into an envelope: length first.
Route(h) == IF h.big THEN "rejected" ELSE Classify(h)

\* FOLDERS, and the trash folder for what is legacy; a relayed event that is not done, and
\* a message that is not, go to Errors.
FolderOf(route) ==
    CASE route \in {"report", "owner_change", "processed"} -> "Reports"
      [] route = "weekly" -> "Weekly Reports"
      [] route \in {"warning", "alert", "error", "relay", "rejected"} -> "Errors"
      [] route = "legacy" -> "Trash"

-----------------------------------------------------------------------------
\* docs/MAIL-REPORTS-RU.md, the table of the contract for the notices, and its promise that
\* mail of others stays in the inbox.
MeantFolder(h) ==
    IF ~ (h.ours /\ h.sole) THEN "INBOX"
    ELSE IF h.head \in {"REPORT", "OWNER CHANGE"} THEN "Reports"
    ELSE IF h.head = "WEEKLY" THEN "Weekly Reports"
    ELSE "Errors"

=============================================================================
