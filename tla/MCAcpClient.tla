---------------------------- MODULE MCAcpClient ----------------------------
EXTENDS AcpClient
=============================================================================
