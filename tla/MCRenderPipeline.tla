-------------------------- MODULE MCRenderPipeline --------------------------
(***************************************************************************)
(* Instances of RenderPipeline for TLC: one Certificate of the source's    *)
(* own and one of its proxy, so that an error in the first loop can still  *)
(* be followed by the second.                                              *)
(***************************************************************************)
EXTENDS RenderPipeline

OneOwnCert == <<"server">>

OneProxyCert == <<"proxyServer">>

=============================================================================
