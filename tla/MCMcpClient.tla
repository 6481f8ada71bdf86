----------------------------- MODULE MCMcpClient -----------------------------
(* McpClient for TLC: one request and one queued UI event over two          *)
(* processes of the application.                                            *)
EXTENDS McpClient
=============================================================================
