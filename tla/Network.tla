------------------------------- MODULE Network -------------------------------
(***************************************************************************)
(* What a relay does beside its log, and between relays: publications and  *)
(* their readers, what it shows of what was posted, pushes to sockets (its *)
(* own and the notification service's), the exchange with other nodes, how *)
(* they come to know each other, and the crawl for them.                   *)
(* These parts share the process, but no state; a behaviour is one of one  *)
(* of them.                                                                *)
(***************************************************************************)
EXTENDS RelayPublications, RelayPush, Notification, Federation, Crawler,
        RelayReads

VARIABLE part  \* the part that runs in this behaviour

Parts == {"publications", "push", "notification", "federation", "peers",
          "crawler", "reads"}

vars == <<part, pubVars, pushVars, noticeVars, fedVars, peerVars, crawlVars,
          readVars>>

TypeOK ==
  /\ part \in Parts
  /\ part = "publications" => PubTypeOK
  /\ part = "push" => PushTypeOK
  /\ part = "notification" => NoticeTypeOK
  /\ part = "federation" => FedTypeOK
  /\ part = "peers" => PeerTypeOK
  /\ part = "crawler" => CrawlTypeOK
  /\ part = "reads" => ReadTypeOK

Init ==
  /\ part \in Parts
  /\ PubInit /\ PushInit /\ NoticeInit /\ FedInit /\ PeerInit /\ CrawlInit
  /\ ReadInit /\ (part # "reads" => reader = CHOOSE r \in Reads : TRUE)

OnlyPublications ==
  UNCHANGED <<pushVars, noticeVars, fedVars, peerVars, crawlVars, readVars>>
OnlyPush ==
  UNCHANGED <<pubVars, noticeVars, fedVars, peerVars, crawlVars, readVars>>
OnlyNotification ==
  UNCHANGED <<pubVars, pushVars, fedVars, peerVars, crawlVars, readVars>>
OnlyFederation ==
  UNCHANGED <<pubVars, pushVars, noticeVars, peerVars, crawlVars, readVars>>
OnlyPeers ==
  UNCHANGED <<pubVars, pushVars, noticeVars, fedVars, crawlVars, readVars>>
OnlyCrawler ==
  UNCHANGED <<pubVars, pushVars, noticeVars, fedVars, peerVars, readVars>>
OnlyReads ==
  UNCHANGED <<pubVars, pushVars, noticeVars, fedVars, peerVars, crawlVars>>

Next ==
  /\ UNCHANGED part
  /\ \/ part = "publications" /\ PubNext /\ OnlyPublications
     \/ part = "push" /\ PushNext /\ OnlyPush
     \/ part = "notification" /\ NoticeNext /\ OnlyNotification
     \/ part = "federation" /\ FedNext /\ OnlyFederation
     \/ part = "peers" /\ PeerNext /\ OnlyPeers
     \/ part = "crawler" /\ CrawlNext /\ OnlyCrawler
     \/ part = "reads" /\ ReadNext /\ OnlyReads

Spec == Init /\ [][Next]_vars /\ CrawlFairness

\* Whoever listens hears what is pushed, from the relay and from the service,
\* and what was pushed is kept.
PushesArrive == AudienceIsReached /\ NoticesArrive

\* Nodes that exchange what they hold keep their own decisions, import nothing
\* that is not public, and note the peers they answer for.
NodesKeepTheirSay ==
  RemovalsOutliveImports /\ ImportsArePublic /\ PeersAreNoted
=============================================================================
