SPECIFICATION FairFlow
CONSTANTS
    Hosts = {h1}
    HostExpiry = 3
    Own = own
    Given = given
    Nobody = nobody
    ConnectTimeout = 3
    MaxChoices = 4
PROPERTIES
    RetriesDiscovery
