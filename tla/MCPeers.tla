------------------------------- MODULE MCPeers -------------------------------
(***************************************************************************)
(* The engines that talk to a peer process: MCP servers, debug adapters,   *)
(* language servers, the JavaScript runtime and the browser.  They share   *)
(* nothing but the loop that runs one action at a time, so a behaviour     *)
(* drives one of them while the others stay as they were built.            *)
(***************************************************************************)
EXTENDS McpServers, DapSessions, LspServers, EvalRuntime, BrowserTabs

VARIABLE engine

Engines == {"mcp", "dap", "lsp", "eval", "browser"}

MCInit ==
  engine \in Engines /\ McpInit /\ DapInit /\ LspInit /\ EvalInit /\ BrowserInit

MCNext ==
  /\ engine' = engine
  /\ \/ engine = "mcp" /\ McpNext /\ UNCHANGED <<dapVars, lspVars, evalVars, browserVars>>
     \/ engine = "dap" /\ DapNext /\ UNCHANGED <<mcpVars, lspVars, evalVars, browserVars>>
     \/ engine = "lsp" /\ LspNext /\ UNCHANGED <<mcpVars, dapVars, evalVars, browserVars>>
     \/ engine = "eval" /\ EvalNext /\ UNCHANGED <<mcpVars, dapVars, lspVars, browserVars>>
     \/ engine = "browser" /\ BrowserNext /\ UNCHANGED <<mcpVars, dapVars, lspVars, evalVars>>

MCSpec ==
  /\ MCInit /\ [][MCNext]_<<engine, mcpVars, dapVars, lspVars, evalVars, browserVars>>
  /\ McpFairness /\ DapFairness /\ LspFairness /\ EvalFairness /\ BrowserFairness

TypesOK == McpTypeOK /\ DapTypeOK /\ LspTypeOK /\ EvalTypeOK /\ BrowserTypeOK

\* A request is only ever given the answer made for it.
OwnAnswer == McpOwnAnswer /\ DapOwnAnswer

\* While its client lives, no failure, timeout or refusal leaves a peer running that
\* nobody can stop.
NoOrphanPeer == McpNoOrphan /\ DapNoOrphan

Calling ==
  call # NoCall \/ dapOp # NoOp \/ lspOp # IdleLsp \/ evalCall # NoEval \/ verb # NoVerb
\* The call's peer lives and will never read what is being written to it.
Held ==
  \/ mcpFull /\ ~McpWritable
  \/ dapFull /\ ~DapWritable
  \/ lspFull /\ Up
  \/ evalFull /\ runtime = "up"

\* Every call of every engine comes back, whatever its peer does, unless the peer
\* lives on without reading: also a request registered after the reader failed the
\* pending ones (mcp_ops.rs:278-300, dap_ops.rs:165-195), one whose language server
\* nobody noticed dying, one whose peer dies under the write, and code that hangs or
\* takes the runtime down.  The exception is the code's, against mcp_ops.rs:16 ("every
\* request has a timeout"): the writes at mcp_ops.rs:268-276, dap_ops.rs:181,
\* lsp_ops.rs:281 and 531-542 and eval_session.rs:300 are outside every timeout.
CallsEnd == Calling ~> (~Calling \/ Held)
==============================================================================
