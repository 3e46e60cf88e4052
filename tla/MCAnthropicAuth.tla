----------------------------- MODULE MCAnthropicAuth -----------------------------
EXTENDS AnthropicAuth
=================================================================================
