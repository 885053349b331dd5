------------------------------ MODULE MCAssets ------------------------------
\* What the wallet shows and moves of an account's assets: the scan for NFTs, the
\* token list, the NFT panel, the transactions tab and the bulk transfer.  Each of
\* them keeps its own records, so each behaviour is one of either.
EXTENDS NftScan, NftPanel, BulkPanel, ChainHistory, TokenHoldings

VARIABLE part

\* Rows to pay: two of BOING to different people, an item, and a second payment.
Entry(n, t, a, v) == [no |-> n, to |-> t, asset |-> a, amount |-> v]
MCRows == {Entry(1, "a", "boing", 1), Entry(2, "b", "boing", 1),
           Entry(3, "a", "item", 1), Entry(4, "a", "boing", 1)}
MCBalance == [a \in {"boing"} |-> 2]

assets == <<part, scanVars, tokenVars, panelVars, historyVars, bulkVars>>

AssetsInit ==
  /\ part \in {"scan", "tokens", "nfts", "history", "bulk"}
  /\ ScanInit
  /\ TokensInit
  /\ NftsInit
  /\ HistoryInit
  /\ BulkInit
  /\ part # "scan" => inbound = {}
  /\ part # "nfts" => panel = "view" /\ mine = {} /\ watched = {}
  /\ part # "history" => committed = 0 /\ reverted = {}
  /\ part # "bulk" => takes

AssetsNext ==
  \/ /\ part = "scan" /\ ScanNext
     /\ UNCHANGED <<part, tokenVars, panelVars, historyVars, bulkVars>>
  \/ /\ part = "tokens" /\ TokensNext
     /\ UNCHANGED <<part, scanVars, panelVars, historyVars, bulkVars>>
  \/ /\ part = "nfts" /\ NftsNext
     /\ UNCHANGED <<part, scanVars, tokenVars, historyVars, bulkVars>>
  \/ /\ part = "history" /\ HistoryNext
     /\ UNCHANGED <<part, scanVars, tokenVars, panelVars, bulkVars>>
  \/ /\ part = "bulk" /\ BulkNext
     /\ UNCHANGED <<part, scanVars, tokenVars, panelVars, historyVars>>

AssetsSpec == AssetsInit /\ [][AssetsNext]_assets
=============================================================================
